---- MODULE Spec2Model ----
(***************************************************************************)
(* Rucbase storage core: DiskManager page I/O, LRUReplacer and             *)
(* BufferPoolManager, modelled as a state machine.  Every public method    *)
(* of BufferPoolManager runs under latch_ (std::lock_guard), so each       *)
(* method is one atomic step; callers (threads) interleave at method       *)
(* granularity and write page bytes in place while they hold a pin.        *)
(***************************************************************************)
EXTENDS Integers, Sequences, FiniteSets, TLC

(***************************************************************************)
(* Bounds of the model.                                                    *)
(***************************************************************************)
\* pool_size_: number of frames of the pool
NumFrames == 2
\* page numbers 0 .. MaxPageNo-1 exist per file descriptor
MaxPageNo == 3
\* a pin count never goes above MaxPin (guard of fetch_page on a cached page)
MaxPin == 2
\* page contents are abstracted to one value 0..MaxVal, 0 being the zero page
MaxVal == 1

\* INVALID_PAGE_ID of the code base
INVALID_PAGE_ID == -1

Fds == {0}
\* MAX_FD of disk_manager.cpp, scaled down: descriptors 0 .. MAX_FD-1 are tracked
MAX_FD == 3
Threads == {"t1", "t2"}
Frames == 0 .. (NumFrames - 1)
PageNos == 0 .. (MaxPageNo - 1)
PageIds == [fd : Fds, page_no : PageNos]
Data == 0 .. MaxVal
ZeroPage == 0
InvalidId == [fd |-> INVALID_PAGE_ID, page_no |-> INVALID_PAGE_ID]
NoFrame == -1

VARIABLES
    pages_,       \* Page pages_[pool_size_]: id_, pin_count_, is_dirty_, data_
    page_table_,  \* std::unordered_map<PageId, frame_id_t>
    free_list_,   \* std::list<frame_id_t>
    LRUlist_,     \* LRUReplacer: front = most recently unpinned; LRUhash_ indexes it
    disk,         \* file contents per descriptor, a sequence of pages
    fd2pageno_,   \* DiskManager: next page number per descriptor
    dirtied,      \* per frame: unpinned dirty since its page was loaded or flushed
    idle,         \* frames whose page is at pin count 0, longest unpinned first
    holds,        \* per thread, the <<PageId, frame>> pointers it got and has not unpinned
    lastWrite,    \* per page, the bytes last written to it through a pinned frame
    file_hdr_,    \* RmFileHandle: the in-memory file header of the open heap file
    live,         \* per live Rid, the bytes it holds and whether insert or update wrote them
    nops,         \* number of record operations issued on the heap file
    rdbuf,        \* DiskManager::read_page: the caller's buffer after the last read
    fd_occupied_, \* DiskManager: bool fd_occupied_[MAX_FD]
    fd2path_,     \* DiskManager: std::unordered_map<int, std::string>
    path2fd_,     \* DiskManager: std::unordered_map<std::string, int>
    osfds,        \* the process's open descriptors and the path each was opened on
    fsfiles,      \* the paths of the files that exist
    rid_,         \* RmScan: Rid rid_, the cursor of the scan
    scanlog,      \* the calls made on the scan (constructor, then next), in order
    thr           \* the two threads on the heap file: where each is in its call

pool == <<pages_, page_table_, free_list_, LRUlist_>>
prog == <<pages_, page_table_, free_list_, LRUlist_, disk, fd2pageno_>>
vars == <<pages_, page_table_, free_list_, LRUlist_, disk, fd2pageno_,
          dirtied, idle, holds, lastWrite, file_hdr_, live, nops, rdbuf,
          fd_occupied_, fd2path_, path2fd_, osfds, fsfiles, rid_, scanlog, thr>>

\* the variables the buffer pool and the heap file never touch
tables == <<fd_occupied_, fd2path_, path2fd_, osfds, fsfiles>>
scan == <<rid_, scanlog>>
others == <<rdbuf, tables, scan, thr>>

\* the program state as one value: the methods below map a state to a result
St == [pgs |-> pages_, table |-> page_table_, free |-> free_list_,
       lru |-> LRUlist_, dsk |-> disk, f2p |-> fd2pageno_]

Range(s) == {s[i] : i \in DOMAIN s}

----------------------------------------------------------------------------
(***************************************************************************)
(* DiskManager                                                             *)
(***************************************************************************)

\* the file grown with zero pages up to n pages (a write past the end leaves a hole)
RECURSIVE Pad(_, _)
Pad(file, n) == IF Len(file) >= n THEN file ELSE Pad(Append(file, ZeroPage), n)

\* a write_page that does not seek: the page goes to the end of the file
write_page_appends(dsk, fd, page_no, buf) ==
    [dsk EXCEPT ![fd] = Append(@, buf)]

\* write_page: lseek to page_no * PAGE_SIZE, write the whole page
write_page(dsk, fd, page_no, buf) ==
    [dsk EXCEPT ![fd] = [Pad(@, page_no + 1) EXCEPT ![page_no + 1] = buf]]

\* read_page: zero-filled when the offset is at or beyond the file size
read_page(dsk, fd, page_no) ==
    IF page_no >= Len(dsk[fd]) THEN ZeroPage ELSE dsk[fd][page_no + 1]

\* allocate_page: return fd2pageno_[fd]++
allocate_page(f2p, fd) ==
    [page_no |-> f2p[fd], fd2pageno |-> [f2p EXCEPT ![fd] = @ + 1]]

----------------------------------------------------------------------------
(***************************************************************************)
(* LRUReplacer                                                             *)
(***************************************************************************)

\* a victim that takes the front of the list, the most recently unpinned frame
victim_front(lru) ==
    IF lru = <<>>
    THEN [ok |-> FALSE, frame_id |-> NoFrame, lru |-> lru]
    ELSE [ok |-> TRUE, frame_id |-> lru[1], lru |-> Tail(lru)]

\* victim: fails on an empty list, else removes and returns the back of the list
victim(lru) ==
    IF lru = <<>>
    THEN [ok |-> FALSE, frame_id |-> NoFrame, lru |-> lru]
    ELSE [ok |-> TRUE, frame_id |-> lru[Len(lru)],
          lru |-> SubSeq(lru, 1, Len(lru) - 1)]

\* a pin that leaves the frame in the list
pin_keeps(lru, frame_id) == lru

\* pin: erase the frame from the list if it is there
pin(lru, frame_id) == SelectSeq(lru, LAMBDA x : x # frame_id)

\* unpin: no-op if tracked, else push_front
unpin(lru, frame_id) ==
    IF frame_id \in Range(lru) THEN lru ELSE <<frame_id>> \o lru

\* Size
Size(lru) == Len(lru)

----------------------------------------------------------------------------
(***************************************************************************)
(* BufferPoolManager                                                       *)
(***************************************************************************)

IoWrite(id) == [kind |-> "write", fd |-> id.fd, page_no |-> id.page_no]
IoRead(id) == [kind |-> "read", fd |-> id.fd, page_no |-> id.page_no]

\* page_table_.erase(id)
Erase(table, id) == [k \in (DOMAIN table) \ {id} |-> table[k]]

\* page_table_[id] = frame_id
Put(table, id, frame_id) ==
    [k \in (DOMAIN table) \cup {id} |-> IF k = id THEN frame_id ELSE table[k]]

\* the result of a method: the state it leaves, what it returns (ok: a page /
\* true; frame_id: the frame of the returned Page*; id: the PageId handed back),
\* where an acquired frame came from, the page evicted from it, and the disk
\* I/O the method did, in order
Res(st, ok, frame_id, id, from, evicted, io) ==
    [st |-> st, ok |-> ok, frame_id |-> frame_id, id |-> id, from |-> from,
     evicted |-> evicted, io |-> io]

Fail(s) == Res(s, FALSE, NoFrame, InvalidId, "none", InvalidId, <<>>)

\* a find_victim_page that writes the victim back whether it is dirty or not
find_victim_page_writes_clean(s) ==
    IF s.free # <<>>
    THEN Res([s EXCEPT !.free = Tail(@)], TRUE, Head(s.free), InvalidId, "free",
             InvalidId, <<>>)
    ELSE LET v == victim(s.lru) IN
         IF v.ok
         THEN LET vp == s.pgs[v.frame_id]
                  s1 == [s EXCEPT !.lru = v.lru]
                  s2 == [s1 EXCEPT
                           !.dsk = write_page(@, vp.id_.fd, vp.id_.page_no, vp.data_),
                           !.pgs[v.frame_id].is_dirty_ = FALSE]
                  s3 == [s2 EXCEPT !.table = Erase(@, vp.id_)]
              IN Res(s3, TRUE, v.frame_id, InvalidId, "replacer", vp.id_,
                     <<IoWrite(vp.id_)>>)
         ELSE Fail(s)

find_victim_page(s) ==
    IF s.free # <<>>
    THEN Res([s EXCEPT !.free = Tail(@)], TRUE, Head(s.free), InvalidId, "free",
             InvalidId, <<>>)
    ELSE LET v == victim(s.lru) IN
         IF v.ok
         THEN LET vp == s.pgs[v.frame_id]
                  s1 == [s EXCEPT !.lru = v.lru]
                  s2 == IF vp.is_dirty_
                        THEN [s1 EXCEPT
                                !.dsk = write_page(@, vp.id_.fd, vp.id_.page_no, vp.data_),
                                !.pgs[v.frame_id].is_dirty_ = FALSE]
                        ELSE s1
                  s3 == [s2 EXCEPT !.table = Erase(@, vp.id_)]
              IN Res(s3, TRUE, v.frame_id, InvalidId, "replacer", vp.id_,
                     IF vp.is_dirty_ THEN <<IoWrite(vp.id_)>> ELSE <<>>)
         ELSE Fail(s)

\* update_page: only the identity changes, the bytes are left as they are
update_page(page, new_page_id) == [page EXCEPT !.id_ = new_page_id]

\* a new_page that allocates the page number before it looks for a frame
new_page_allocates_first(s, fd) ==
    LET a == allocate_page(s.f2p, fd)
        s0 == [s EXCEPT !.f2p = a.fd2pageno]
        fv == find_victim_page(s0)
    IN
    IF ~fv.ok
    THEN Fail(s0)
    ELSE LET id == [fd |-> fd, page_no |-> a.page_no]
             f == fv.frame_id
             s2 == [fv.st EXCEPT !.pgs[f] = [update_page(@, id) EXCEPT
                                                !.pin_count_ = 1, !.is_dirty_ = FALSE]]
             s3 == [s2 EXCEPT !.table = Put(@, id, f)]
             s4 == [s3 EXCEPT !.lru = pin(@, f)]
         IN Res(s4, TRUE, f, id, fv.from, fv.evicted, fv.io)

new_page(s, fd) ==
    LET fv == find_victim_page(s) IN
    IF ~fv.ok
    THEN Fail(s)
    ELSE LET a == allocate_page(fv.st.f2p, fd)
             id == [fd |-> fd, page_no |-> a.page_no]
             f == fv.frame_id
             s1 == [fv.st EXCEPT !.f2p = a.fd2pageno]
             s2 == [s1 EXCEPT !.pgs[f] = [update_page(@, id) EXCEPT
                                             !.pin_count_ = 1, !.is_dirty_ = FALSE]]
             s3 == [s2 EXCEPT !.table = Put(@, id, f)]
             s4 == [s3 EXCEPT !.lru = pin(@, f)]
         IN Res(s4, TRUE, f, id, fv.from, fv.evicted, fv.io)

fetch_page(s, page_id) ==
    IF page_id \in DOMAIN s.table
    THEN LET f == s.table[page_id]
             s1 == [s EXCEPT !.pgs[f].pin_count_ = @ + 1]
             s2 == [s1 EXCEPT !.lru = pin(@, f)]
         IN Res(s2, TRUE, f, page_id, "cached", InvalidId, <<>>)
    ELSE LET fv == find_victim_page(s) IN
         IF ~fv.ok
         THEN Fail(s)
         ELSE LET f == fv.frame_id
                  buf == read_page(fv.st.dsk, page_id.fd, page_id.page_no)
                  s1 == [fv.st EXCEPT !.pgs[f] = [update_page(@, page_id) EXCEPT
                                                     !.data_ = buf,
                                                     !.pin_count_ = 1,
                                                     !.is_dirty_ = FALSE]]
                  s2 == [s1 EXCEPT !.table = Put(@, page_id, f)]
                  s3 == [s2 EXCEPT !.lru = pin(@, f)]
              IN Res(s3, TRUE, f, page_id, fv.from, fv.evicted,
                     fv.io \o <<IoRead(page_id)>>)

\* an unpin_page that sets the dirty flag before it checks the pin count
unpin_page_marks_first(s, page_id, is_dirty) ==
    IF page_id \notin DOMAIN s.table
    THEN Fail(s)
    ELSE LET f == s.table[page_id]
             s1 == IF is_dirty THEN [s EXCEPT !.pgs[f].is_dirty_ = TRUE] ELSE s
         IN
         IF s.pgs[f].pin_count_ <= 0
         THEN Fail(s1)
         ELSE LET s2 == [s1 EXCEPT !.pgs[f].pin_count_ = @ - 1]
                  s3 == IF s2.pgs[f].pin_count_ = 0
                        THEN [s2 EXCEPT !.lru = unpin(@, f)] ELSE s2
              IN Res(s3, TRUE, NoFrame, page_id, "none", InvalidId, <<>>)

unpin_page(s, page_id, is_dirty) ==
    IF page_id \notin DOMAIN s.table
    THEN Fail(s)
    ELSE LET f == s.table[page_id] IN
         IF s.pgs[f].pin_count_ <= 0
         THEN Fail(s)
         ELSE LET s1 == IF is_dirty THEN [s EXCEPT !.pgs[f].is_dirty_ = TRUE] ELSE s
                  s2 == [s1 EXCEPT !.pgs[f].pin_count_ = @ - 1]
                  s3 == IF s2.pgs[f].pin_count_ = 0
                        THEN [s2 EXCEPT !.lru = unpin(@, f)] ELSE s2
              IN Res(s3, TRUE, NoFrame, page_id, "none", InvalidId, <<>>)

\* a delete_page that leaves the freed frame in the replacer
delete_page_stays_evictable(s, page_id) ==
    IF page_id \notin DOMAIN s.table
    THEN Res(s, TRUE, NoFrame, page_id, "none", InvalidId, <<>>)
    ELSE LET f == s.table[page_id] IN
         IF s.pgs[f].pin_count_ > 0
         THEN Fail(s)
         ELSE LET s1 == [s EXCEPT !.table = Erase(@, page_id)]
                  s2 == [s1 EXCEPT !.pgs[f].is_dirty_ = FALSE,
                                   !.pgs[f].id_ = InvalidId]
                  s3 == [s2 EXCEPT !.free = Append(@, f)]
              IN Res(s3, TRUE, NoFrame, page_id, "none", InvalidId, <<>>)

delete_page(s, page_id) ==
    IF page_id \notin DOMAIN s.table
    THEN Res(s, TRUE, NoFrame, page_id, "none", InvalidId, <<>>)
    ELSE LET f == s.table[page_id] IN
         IF s.pgs[f].pin_count_ > 0
         THEN Fail(s)
         ELSE LET s1 == [s EXCEPT !.table = Erase(@, page_id)]
                  s2 == [s1 EXCEPT !.pgs[f].is_dirty_ = FALSE,
                                   !.pgs[f].id_ = InvalidId]
                  s3 == [s2 EXCEPT !.free = Append(@, f)]
                  s4 == [s3 EXCEPT !.lru = pin(@, f)]
              IN Res(s4, TRUE, NoFrame, page_id, "none", InvalidId, <<>>)

flush_page(s, page_id) ==
    IF page_id \notin DOMAIN s.table
    THEN Fail(s)
    ELSE LET f == s.table[page_id]
             s1 == [s EXCEPT !.dsk = write_page(@, page_id.fd, page_id.page_no,
                                                s.pgs[f].data_)]
             s2 == [s1 EXCEPT !.pgs[f].is_dirty_ = FALSE]
         IN Res(s2, TRUE, NoFrame, page_id, "none", InvalidId, <<IoWrite(page_id)>>)

\* the loop of flush_all_pages over frames i .. pool_size_-1
RECURSIVE FlushFrom(_, _, _, _)
FlushFrom(i, fd, s, io) ==
    IF i >= NumFrames
    THEN Res(s, TRUE, NoFrame, InvalidId, "none", InvalidId, io)
    ELSE IF s.pgs[i].id_.fd = fd
         THEN FlushFrom(i + 1, fd,
                        [s EXCEPT !.dsk = write_page(@, fd, s.pgs[i].id_.page_no,
                                                     s.pgs[i].data_),
                                  !.pgs[i].is_dirty_ = FALSE],
                        Append(io, IoWrite(s.pgs[i].id_)))
         ELSE FlushFrom(i + 1, fd, s, io)

flush_all_pages(s, fd) == FlushFrom(0, fd, s, <<>>)

----------------------------------------------------------------------------
(***************************************************************************)
(* Steps.  A method call is one step: the state becomes the state of the   *)
(* method's result.  dirtied, idle, holds and lastWrite observe the calls  *)
(* from outside; no method reads them.                                     *)
(***************************************************************************)

FrameSeq == [i \in 1 .. NumFrames |-> i - 1]
\* frames at pin count 0 that hold a page, in the order their pin count reached 0
IdleAfter(r) ==
    SelectSeq(idle, LAMBDA f : /\ r.st.pgs[f].pin_count_ = 0
                               /\ f \notin Range(r.st.free)
                               /\ f # r.frame_id)
    \o SelectSeq(FrameSeq, LAMBDA f : /\ pages_[f].pin_count_ > 0
                                      /\ r.st.pgs[f].pin_count_ = 0)

Do(r) ==
    /\ pages_' = r.st.pgs
    /\ page_table_' = r.st.table
    /\ free_list_' = r.st.free
    /\ LRUlist_' = r.st.lru
    /\ disk' = r.st.dsk
    /\ fd2pageno_' = r.st.f2p
    /\ idle' = IdleAfter(r)

NewPage(fd) ==
    LET r == new_page(St, fd) IN
    /\ fd2pageno_[fd] < MaxPageNo
    /\ Do(r)
    /\ dirtied' = IF r.ok THEN [dirtied EXCEPT ![r.frame_id] = FALSE] ELSE dirtied

FetchPage(page_id) ==
    LET r == fetch_page(St, page_id) IN
    /\ Do(r)
    /\ dirtied' = IF r.ok /\ page_id \notin DOMAIN page_table_
                  THEN [dirtied EXCEPT ![r.frame_id] = FALSE]
                  ELSE dirtied

UnpinPage(page_id, is_dirty) ==
    /\ Do(unpin_page(St, page_id, is_dirty))
    /\ dirtied' = IF unpin_page(St, page_id, is_dirty).ok /\ is_dirty
                  THEN [dirtied EXCEPT ![page_table_[page_id]] = TRUE]
                  ELSE dirtied

DeletePage(page_id) ==
    /\ Do(delete_page(St, page_id))
    /\ dirtied' = IF delete_page(St, page_id).ok /\ page_id \in DOMAIN page_table_
                  THEN [dirtied EXCEPT ![page_table_[page_id]] = FALSE]
                  ELSE dirtied

FlushPage(page_id) ==
    /\ Do(flush_page(St, page_id))
    /\ dirtied' = IF flush_page(St, page_id).ok
                  THEN [dirtied EXCEPT ![page_table_[page_id]] = FALSE]
                  ELSE dirtied

FlushAllPages(fd) ==
    /\ Do(flush_all_pages(St, fd))
    /\ dirtied' = [f \in Frames |-> IF pages_[f].id_.fd = fd THEN FALSE
                                    ELSE dirtied[f]]

\* a caller writes the bytes of a page in place through the Page* it was handed
WriteData(f, v) ==
    /\ pages_[f].data_ # v
    /\ pages_' = [pages_ EXCEPT ![f].data_ = v]
    /\ UNCHANGED <<page_table_, free_list_, LRUlist_, disk, fd2pageno_, dirtied,
                   idle>>

----------------------------------------------------------------------------
\* DiskManager::DiskManager: every page counter is 0; the files are empty
InitDisk ==
    /\ fd2pageno_ = [fd \in Fds |-> 0]
    /\ disk = [fd \in Fds |-> <<>>]

\* nothing was read yet
NoRead == [fd |-> INVALID_PAGE_ID, page_no |-> INVALID_PAGE_ID, data |-> ZeroPage]
\* DiskManager::DiskManager: no descriptor is occupied, the tables are empty;
\* the process has no file open and no file exists yet
InitTables ==
    /\ fd_occupied_ = [fd \in 0 .. (MAX_FD - 1) |-> FALSE]
    /\ fd2path_ = <<>>
    /\ path2fd_ = <<>>
    /\ osfds = <<>>
    /\ fsfiles = {}

\* no scan has been constructed
InitScan ==
    /\ rid_ = [page_no |-> 0, slot_no |-> -1]
    /\ scanlog = <<>>

\* a thread that is in no call of the heap file
Idle == [pc |-> "idle", frame_id |-> NoFrame,
         rid |-> [page_no |-> INVALID_PAGE_ID, slot_no |-> INVALID_PAGE_ID],
         buf |-> ZeroPage]

\* both threads are outside any call and no two calls have overlapped
InitThreads == thr = [ins |-> Idle, del |-> Idle, raced |-> FALSE]

InitOthers == rdbuf = NoRead /\ InitTables /\ InitScan /\ InitThreads

\* BufferPoolManager constructor: every frame is free, no page is cached
InitPool ==
    /\ pages_ = [f \in Frames |-> [id_ |-> InvalidId, pin_count_ |-> 0,
                                   is_dirty_ |-> FALSE, data_ |-> ZeroPage]]
    /\ page_table_ = <<>>
    /\ free_list_ = FrameSeq
    /\ LRUlist_ = <<>>

Init ==
    /\ InitDisk
    /\ InitPool
    /\ dirtied = [f \in Frames |-> FALSE]
    /\ idle = <<>>
    /\ holds = [t \in Threads |-> {}]
    /\ lastWrite = <<>>
    /\ file_hdr_ = <<>>
    /\ live = <<>>
    /\ nops = 0
    /\ InitOthers

\* the bound on pin counts: no fetch of a cached page already pinned MaxPin times
PinRoom(id) ==
    id \in DOMAIN page_table_ => pages_[page_table_[id]].pin_count_ < MaxPin

(***************************************************************************)
(* Spec: any sequence of calls, by callers that write a page only while    *)
(* its frame is pinned.                                                    *)
(***************************************************************************)
Next ==
    \/ \E fd \in Fds : NewPage(fd) /\ UNCHANGED <<holds, lastWrite, file_hdr_, live, nops, others>>
    \/ \E id \in PageIds :
          /\ PinRoom(id)
          /\ FetchPage(id)
          /\ UNCHANGED <<holds, lastWrite, file_hdr_, live, nops, others>>
    \/ \E id \in PageIds, d \in BOOLEAN :
          UnpinPage(id, d) /\ UNCHANGED <<holds, lastWrite, file_hdr_, live, nops, others>>
    \/ \E id \in PageIds : DeletePage(id) /\ UNCHANGED <<holds, lastWrite, file_hdr_, live, nops, others>>
    \/ \E id \in PageIds : FlushPage(id) /\ UNCHANGED <<holds, lastWrite, file_hdr_, live, nops, others>>
    \/ \E fd \in Fds : FlushAllPages(fd) /\ UNCHANGED <<holds, lastWrite, file_hdr_, live, nops, others>>
    \/ \E f \in Frames, v \in Data :
          /\ pages_[f].pin_count_ > 0
          /\ WriteData(f, v)
          /\ UNCHANGED <<holds, lastWrite, file_hdr_, live, nops, others>>

Spec == Init /\ [][Next]_vars

TypeOK ==
    /\ \A f \in Frames : pages_[f].pin_count_ \in 0 .. MaxPin
    /\ DOMAIN page_table_ \subseteq PageIds

----------------------------------------------------------------------------
(***************************************************************************)
(* Claims                                                                  *)
(***************************************************************************)

Cached(id) == id \in DOMAIN page_table_
PinOf(id) == pages_[page_table_[id]].pin_count_
Exhausted == free_list_ = <<>> /\ LRUlist_ = <<>>

\* C5: fetch_page of a page that is in the page table does no disk read or
\* write, adds exactly 1 to that page's pin count, takes its frame out of the
\* replacer, returns that same frame with bytes and dirty flag as they were,
\* and leaves every other frame, the free list and the page table unchanged.
C5_FetchCachedEffect ==
    [][\A id \in PageIds :
         (Cached(id) /\ FetchPage(id)) =>
            LET f == page_table_[id]
                r == fetch_page(St, id)
            IN /\ r.ok /\ r.frame_id = f /\ r.io = <<>>
               /\ disk' = disk /\ fd2pageno_' = fd2pageno_
               /\ pages_'[f].pin_count_ = pages_[f].pin_count_ + 1
               /\ pages_'[f].data_ = pages_[f].data_
               /\ pages_'[f].is_dirty_ = pages_[f].is_dirty_
               /\ pages_'[f].id_ = id
               /\ \A g \in Frames \ {f} : pages_'[g] = pages_[g]
               /\ f \notin Range(LRUlist_')
               /\ LRUlist_' = SelectSeq(LRUlist_, LAMBDA x : x # f)
               /\ free_list_' = free_list_
               /\ page_table_' = page_table_]_vars

\* C5 witness: a page pinned twice, which only a fetch of a cached, pinned page makes
C5_Witness ==
    \E id \in PageIds : Cached(id) /\ PinOf(id) = 2 /\ pages_[page_table_[id]].is_dirty_

\* C6: unpin_page fails when the page is not cached or its pin count is 0, and
\* then nothing of the pool changes: pin counts, dirty flags (also when is_dirty
\* is true), page table, free list and replacer are as before the call.
C6_UnpinFailureNoEffect ==
    \A id \in PageIds, d \in BOOLEAN :
        (~Cached(id) \/ PinOf(id) = 0) =>
            LET r == unpin_page(St, id, d) IN ~r.ok /\ r.st = St /\ r.io = <<>>

\* C6 witness: a cached, clean page at pin count 0 (it was unpinned), on which
\* unpin_page(p, true) is refused, and an uncached page, on which it is refused
C6_Witness ==
    /\ \E id \in PageIds : /\ Cached(id) /\ PinOf(id) = 0
                           /\ ~pages_[page_table_[id]].is_dirty_
                           /\ ~unpin_page(St, id, TRUE).ok
    /\ \E id \in PageIds : ~Cached(id) /\ ~unpin_page(St, id, TRUE).ok

\* C7: fetch_page of an uncached page and new_page fail exactly when the free
\* list is empty and the replacer holds no frame, which is when every frame is
\* pinned; the failed call leaves page table, pin counts, dirty flags, free
\* list, replacer, disk and the per-descriptor page counter unchanged.
C7_ExhaustionFailure ==
    /\ Exhausted <=> \A f \in Frames : pages_[f].pin_count_ > 0
    /\ \A id \in PageIds :
          ~Cached(id) =>
             LET r == fetch_page(St, id) IN
             /\ ~r.ok <=> Exhausted
             /\ ~r.ok => r.st = St /\ r.io = <<>>
    /\ \A fd \in Fds :
          LET r == new_page(St, fd) IN
          /\ ~r.ok <=> Exhausted
          /\ ~r.ok => r.st = St /\ r.io = <<>>

\* C7 witness: every frame pinned, an uncached page left, both calls fail
C7_Witness ==
    /\ Exhausted
    /\ \E id \in PageIds : ~Cached(id) /\ ~fetch_page(St, id).ok
    /\ \E fd \in Fds : ~new_page(St, fd).ok /\ fd2pageno_[fd] > 0

\* C8: delete_page succeeds and changes nothing on an uncached page; fails and
\* changes nothing on a cached page with pin count > 0; on a cached page with
\* pin count 0 it removes the mapping, clears the frame's identity and dirty
\* flag, appends the frame to the free list and removes it from the replacer.
C8_DeletePage ==
    \A id \in PageIds :
        LET r == delete_page(St, id) IN
        /\ ~Cached(id) => r.ok /\ r.st = St
        /\ (Cached(id) /\ PinOf(id) > 0) => ~r.ok /\ r.st = St
        /\ (Cached(id) /\ PinOf(id) = 0) =>
              LET f == page_table_[id] IN
              /\ r.ok
              /\ DOMAIN r.st.table = DOMAIN page_table_ \ {id}
              /\ \A k \in DOMAIN r.st.table : r.st.table[k] = page_table_[k]
              /\ r.st.pgs[f].id_ = InvalidId
              /\ ~r.st.pgs[f].is_dirty_
              /\ r.st.pgs[f].pin_count_ = 0
              /\ \A g \in Frames \ {f} : r.st.pgs[g] = pages_[g]
              /\ r.st.free = Append(free_list_, f)
              /\ f \in Range(r.st.free)
              /\ f \notin Range(r.st.lru)
              /\ r.st.lru = SelectSeq(LRUlist_, LAMBDA x : x # f)
              /\ r.st.dsk = disk /\ r.st.f2p = fd2pageno_

\* C8 witness: a frame that delete_page put back (free, no identity, used
\* bytes), while another page is cached at pin count 0 and one is pinned
C8_Witness ==
    /\ \E f \in Range(free_list_) :
          pages_[f].id_ = InvalidId /\ pages_[f].data_ # ZeroPage
    /\ \E id \in PageIds : Cached(id) /\ PinOf(id) > 0 /\ ~delete_page(St, id).ok

\* the disk is the same outside page id
SameDiskBut(d1, d2, id) ==
    \A q \in PageIds \ {id} :
        read_page(d1, q.fd, q.page_no) = read_page(d2, q.fd, q.page_no)

HasWrite(io) == \E i \in DOMAIN io : io[i].kind = "write"

\* what C3 asks of a call that took frame f from the replacer: io is the disk
\* I/O of the call, st the state it left, rd the read that follows, if any
WriteBackOk(f, io, st, rd) ==
    LET vp == pages_[f] IN
    /\ f \in Range(LRUlist_)
    /\ HasWrite(io) <=> vp.is_dirty_
    /\ vp.is_dirty_ <=> dirtied[f]
    /\ vp.is_dirty_ =>
          /\ io = <<IoWrite(vp.id_)>> \o rd
          /\ read_page(st.dsk, vp.id_.fd, vp.id_.page_no) = vp.data_
          /\ SameDiskBut(st.dsk, disk, vp.id_)
    /\ ~vp.is_dirty_ => io = rd /\ st.dsk = disk

\* C3: when fetch_page or new_page reuses a frame it got from the replacer, the
\* victim is written to disk if and only if its dirty flag is set, the write
\* goes to the victim's own (fd, page_no) with the victim's bytes, it comes
\* before the read that replaces the bytes, and a victim not unpinned dirty
\* since it was loaded or flushed causes no write.
C3_WriteBackIffDirty ==
    (free_list_ = <<>> /\ LRUlist_ # <<>>) =>
        /\ \A id \in PageIds :
              ~Cached(id) =>
                 LET r == fetch_page(St, id) IN
                 /\ r.ok
                 /\ WriteBackOk(r.frame_id, r.io, r.st, <<IoRead(id)>>)
                 /\ r.st.pgs[r.frame_id].id_ = id
                 /\ r.st.pgs[r.frame_id].data_ = read_page(r.st.dsk, id.fd, id.page_no)
        /\ \A fd \in Fds :
              LET r == new_page(St, fd) IN
              /\ r.ok
              /\ WriteBackOk(r.frame_id, r.io, r.st, <<>>)
              /\ r.st.pgs[r.frame_id].id_ = r.id

\* C3 witness: the free list is empty, the frame next to be evicted is dirty
\* with bytes the disk does not have, a second evictable frame is clean, and
\* the fetch of an uncached page writes the first one back
C3_Witness ==
    /\ free_list_ = <<>> /\ Len(LRUlist_) >= 2
    /\ LET v == LRUlist_[Len(LRUlist_)]
           w == LRUlist_[1]
       IN /\ pages_[v].is_dirty_ /\ ~pages_[w].is_dirty_
          /\ pages_[v].data_ # read_page(disk, pages_[v].id_.fd, pages_[v].id_.page_no)
          /\ \E id \in PageIds :
                /\ ~Cached(id)
                /\ fetch_page(St, id).io = <<IoWrite(pages_[v].id_), IoRead(id)>>

\* C4: with an empty free list, the frame that fetch_page of an uncached page
\* or new_page evicts is the one whose page has been at pin count 0 for the
\* longest time (after p1..pN are fetched and fully unpinned in that order, one
\* more fetch evicts p1); a pinned page is never the one evicted.
C4_EvictsLongestUnpinned ==
    /\ Range(idle) = {f \in Frames : /\ pages_[f].pin_count_ = 0
                                     /\ f \notin Range(free_list_)}
    /\ free_list_ = <<>> =>
          /\ \A id \in PageIds :
                (~Cached(id) /\ fetch_page(St, id).ok) =>
                   LET r == fetch_page(St, id) IN
                   /\ idle # <<>>
                   /\ r.frame_id = Head(idle)
                   /\ r.evicted = pages_[Head(idle)].id_
                   /\ pages_[r.frame_id].pin_count_ = 0
          /\ \A fd \in Fds :
                new_page(St, fd).ok =>
                   LET r == new_page(St, fd) IN
                   /\ idle # <<>>
                   /\ r.frame_id = Head(idle)
                   /\ r.evicted = pages_[Head(idle)].id_
                   /\ pages_[r.frame_id].pin_count_ = 0

\* C4 witness: all N frames hold distinct pages fetched and fully unpinned,
\* frame 1 before frame 0, and one more fetch evicts the page of frame 1
C4_Witness ==
    /\ free_list_ = <<>> /\ Len(idle) = NumFrames /\ Head(idle) = 1
    /\ \A f, g \in Frames : f # g => pages_[f].id_ # pages_[g].id_
    /\ \E id \in PageIds :
          /\ ~Cached(id)
          /\ fetch_page(St, id).evicted = pages_[1].id_
          /\ fetch_page(St, id).frame_id = 1

\* a pinned frame is in neither place find_victim_page takes frames from, and
\* a step does not put it on the free list, change its identity, or change
\* its bytes unless the step is a caller's write
PinnedKept(f) ==
    /\ f \notin Range(free_list_) /\ f \notin Range(LRUlist_)
    /\ f \notin Range(free_list_')
    /\ f \in Range(LRUlist_') => pages_'[f].pin_count_ = 0
    /\ pages_'[f].id_ = pages_[f].id_
    /\ pages_'[f].data_ # pages_[f].data_ => \E v \in Data : WriteData(f, v)

\* the page-table entry of the frame's page leads to the frame
Mapped(f) == Cached(pages_[f].id_) /\ page_table_[pages_[f].id_] = f

\* C1: under any sequence of fetch_page, new_page, unpin_page, delete_page and
\* flush calls, a frame whose page has pin count > 0 is never selected by
\* find_victim_page and never returned to the free list; its page-table
\* mapping, identity and bytes stay in place until its pin count is back to 0.
C1_PinnedFrameStaysInPlace ==
    [][\A f \in Frames :
         pages_[f].pin_count_ > 0 => PinnedKept(f) /\ Mapped(f) /\ Mapped(f)']_vars

\* the part of C1 that does not speak of the page table
C1_PinnedFrameKept ==
    [][\A f \in Frames : pages_[f].pin_count_ > 0 => PinnedKept(f)]_vars

\* C9: after delete_page(p) succeeds, no stale data of p survives into the next
\* occupant of the freed frame: the page that the next fetch_page or new_page
\* hands out on a frame taken from the free list holds only the requested
\* page's disk content (fetch_page) or fresh, zeroed content (new_page).
C9_NoStaleDataAfterDelete ==
    free_list_ # <<>> =>
        /\ \A id \in PageIds :
              ~Cached(id) =>
                 LET r == fetch_page(St, id) IN
                 /\ r.frame_id = Head(free_list_)
                 /\ r.st.pgs[r.frame_id].data_ = read_page(disk, id.fd, id.page_no)
        /\ \A fd \in Fds :
              LET r == new_page(St, fd) IN
              /\ r.frame_id = Head(free_list_)
              /\ r.st.pgs[r.frame_id].data_ = ZeroPage

\* the fetch_page half of C9
C9_FetchReadsDisk ==
    free_list_ # <<>> =>
        \A id \in PageIds :
            ~Cached(id) =>
               LET r == fetch_page(St, id) IN
               /\ r.frame_id = Head(free_list_)
               /\ r.st.pgs[r.frame_id].data_ = read_page(disk, id.fd, id.page_no)

----------------------------------------------------------------------------
(***************************************************************************)
(* SpecNoLoss: callers that fetch or create pages, write them in place     *)
(* while pinned and unpin every page with is_dirty = true; delete_page and *)
(* the flushes are never called.  lastWrite[p] is the last value written   *)
(* to page p through a frame that carried p's identity.                    *)
(***************************************************************************)
WritePage(f, v) ==
    /\ pages_[f].pin_count_ > 0
    /\ WriteData(f, v)
    /\ lastWrite' = [id \in (DOMAIN lastWrite) \cup {pages_[f].id_} |->
                        IF id = pages_[f].id_ THEN v ELSE lastWrite[id]]
    /\ UNCHANGED <<holds, file_hdr_, live, nops, others>>

NextNoLoss ==
    \/ \E fd \in Fds : NewPage(fd) /\ UNCHANGED <<holds, lastWrite, file_hdr_, live, nops, others>>
    \/ \E id \in PageIds :
          /\ PinRoom(id)
          /\ FetchPage(id)
          /\ UNCHANGED <<holds, lastWrite, file_hdr_, live, nops, others>>
    \/ \E id \in PageIds : UnpinPage(id, TRUE) /\ UNCHANGED <<holds, lastWrite, file_hdr_, live, nops, others>>
    \/ \E f \in Frames, v \in Data : WritePage(f, v)

SpecNoLoss == Init /\ [][NextNoLoss]_vars

\* C2: no update is lost through the cache: when every write is made while
\* pinned and followed by unpin_page(p, true), and delete_page is never called,
\* a fetch_page(p) that succeeds returns a frame holding the last value written
\* to p, whether p stayed cached or was evicted and read back from disk.
C2_NoLostUpdate ==
    \A id \in PageIds :
        LET r == fetch_page(St, id) IN
        (r.ok /\ id \in DOMAIN lastWrite) =>
            r.st.pgs[r.frame_id].data_ = lastWrite[id]

----------------------------------------------------------------------------
(***************************************************************************)
(* SpecThreads: threads call the pool's methods in any interleaving, each  *)
(* call atomic under latch_.  holds[t] is the set of <<PageId, frame>>     *)
(* pairs thread t was handed by fetch_page or new_page and has not yet     *)
(* given back by unpin_page.  A thread unpins only pages it holds and      *)
(* deletes only pages nobody holds.                                        *)
(***************************************************************************)
HeldIds(t) == {h[1] : h \in holds[t]}

Take(t, r) ==
    holds' = IF r.ok THEN [holds EXCEPT ![t] = @ \cup {<<r.id, r.frame_id>>}]
             ELSE holds

ThreadNewPage(t, fd) ==
    /\ NewPage(fd)
    /\ Take(t, new_page(St, fd))
    /\ UNCHANGED <<lastWrite, file_hdr_, live, nops, others>>

ThreadFetchPage(t, id) ==
    /\ id \notin HeldIds(t)
    /\ PinRoom(id)
    /\ FetchPage(id)
    /\ Take(t, fetch_page(St, id))
    /\ UNCHANGED <<lastWrite, file_hdr_, live, nops, others>>

ThreadUnpinPage(t, id, is_dirty) ==
    /\ id \in HeldIds(t)
    /\ UnpinPage(id, is_dirty)
    /\ holds' = [holds EXCEPT ![t] = {h \in @ : h[1] # id}]
    /\ UNCHANGED <<lastWrite, file_hdr_, live, nops, others>>

ThreadDeletePage(t, id) ==
    /\ \A u \in Threads : id \notin HeldIds(u)
    /\ DeletePage(id)
    /\ UNCHANGED <<holds, lastWrite, file_hdr_, live, nops, others>>

NextThreads ==
    \/ \E t \in Threads, fd \in Fds : ThreadNewPage(t, fd)
    \/ \E t \in Threads, id \in PageIds : ThreadFetchPage(t, id)
    \/ \E t \in Threads, id \in PageIds, d \in BOOLEAN : ThreadUnpinPage(t, id, d)
    \/ \E t \in Threads, id \in PageIds : ThreadDeletePage(t, id)

SpecThreads == Init /\ [][NextThreads]_vars

\* C10: with several threads calling the pool in any interleaving, no frame is
\* given to two pages at once: a frame handed to a thread for a page keeps that
\* page's identity until the thread unpins it, so no two threads hold the same
\* frame for different PageIds and no held frame is evicted by another thread.
C10_NoFrameForTwoPages ==
    /\ \A t \in Threads : \A h \in holds[t] : pages_[h[2]].id_ = h[1]
    /\ \A t, u \in Threads : \A h \in holds[t], g \in holds[u] :
          h[2] = g[2] => h[1] = g[1]

\* the part of C10 stated on pin counts: the frame a successful fetch_page or
\* new_page hands out for a page it did not hold had pin count 0 before the call
C10_HandsOutUnpinnedFrame ==
    /\ \A id \in PageIds :
          LET r == fetch_page(St, id) IN
          (r.ok /\ ~Cached(id)) => pages_[r.frame_id].pin_count_ = 0
    /\ \A fd \in Fds :
          LET r == new_page(St, fd) IN
          r.ok => pages_[r.frame_id].pin_count_ = 0

----------------------------------------------------------------------------
(***************************************************************************)
(* RmFileHandle: a heap file of fixed-length records on top of the pool.   *)
(* A data page is [RmPageHdr: next_free_page_no, num_records][bitmap]      *)
(* [slot 0] .. [slot k]; the handle reads and writes these fields in place *)
(* in the bytes of the pinned frame (reinterpret_cast on Page::get_data).  *)
(* The bytes of a page are one number; Unpack and Pack are the field       *)
(* layout, so that the zero page reads as next_free_page_no = 0,           *)
(* num_records = 0, an empty bitmap and zeroed slots.                      *)
(***************************************************************************)
\* num_records_per_page is at most MaxRpp; the bitmap has MaxRpp bits
MaxRpp == 2
\* pool_size_ of the pool under the heap file
RmPoolSize == 3
\* the caller issues at most MaxOps record operations
MaxOps == 6

RM_NO_FREE_PAGE == -1
\* std::numeric_limits<int>::max(), the "no slot" value insert_record tests for
INT_MAX == 2147483647

\* the descriptor of the open heap file
fd_ == CHOOSE fd \in Fds : TRUE
SlotNos == 0 .. (MaxRpp - 1)
Rids == [page_no : PageNos, slot_no : SlotNos]
RmFrames == 0 .. (RmPoolSize - 1)

\* int fields keep their sign: next_free_page_no is a page number or -1,
\* num_records moves within MaxRpp of a value in 0 .. MaxRpp
NextRadix == MaxPageNo + 1
NumRadix == (3 * MaxRpp) + 1
SlotRadix == MaxVal + 1

RECURSIVE BitsVal(_, _)
BitsVal(bm, n) ==
    IF n = 0 THEN 0
    ELSE BitsVal(bm, n - 1) + (IF bm[n - 1] THEN 2 ^ (n - 1) ELSE 0)

RECURSIVE SlotsVal(_, _)
SlotsVal(sl, n) ==
    IF n = 0 THEN 0 ELSE SlotsVal(sl, n - 1) + (sl[n - 1] * (SlotRadix ^ (n - 1)))

\* the bytes of a page whose fields are v
Pack(v) ==
    (v.next_free_page_no % NextRadix)
    + NextRadix * ((v.num_records % NumRadix)
                   + NumRadix * (BitsVal(v.bitmap, MaxRpp)
                                 + (2 ^ MaxRpp) * SlotsVal(v.slots, MaxRpp)))

\* the fields read from the bytes d of a page
Unpack(d) ==
    LET a == d % NextRadix
        b == (d \div NextRadix) % NumRadix
        r == d \div (NextRadix * NumRadix)
        bm == r % (2 ^ MaxRpp)
        sl == r \div (2 ^ MaxRpp)
    IN [next_free_page_no |-> IF a = NextRadix - 1 THEN a - NextRadix ELSE a,
        num_records |-> IF b > 2 * MaxRpp THEN b - NumRadix ELSE b,
        bitmap |-> [i \in SlotNos |-> (bm \div (2 ^ i)) % 2 = 1],
        slots |-> [i \in SlotNos |-> (sl \div (SlotRadix ^ i)) % SlotRadix]]

\* Bitmap::is_set
is_set(bm, pos) == bm[pos]

\* Bitmap::first_bit(bit, bm, max_n): the lowest position below max_n whose bit
\* equals bit; insert_record expects INT_MAX when there is none
first_bit(bit, bm, max_n) ==
    LET hits == {i \in SlotNos : i < max_n /\ bm[i] = bit} IN
    IF hits = {} THEN INT_MAX ELSE CHOOSE i \in hits : \A j \in hits : i <= j

\* the pool, the disk and the file header as one value
HSt == [st |-> St, hdr |-> file_hdr_]

\* the bytes fetch_page hands out for page page_no of the file in state h
BytesOf(r) == r.st.pgs[r.frame_id].data_
PageView(h, page_no) ==
    Unpack(BytesOf(fetch_page(h.st, [fd |-> fd_, page_no |-> page_no])))

\* the fields of the page in frame f
PageOf(h, f) == Unpack(h.st.pgs[f].data_)

\* the bytes of frame f rewritten with fields v
SetPage(h, f, v) == [h EXCEPT !.st.pgs[f].data_ = Pack(v)]

\* buffer_pool_manager_->unpin_page(page_handle.page->get_page_id(), is_dirty)
Unpin(h, f, is_dirty) ==
    [h EXCEPT !.st = unpin_page(@, h.st.pgs[f].id_, is_dirty).st]

\* an RmPageHandle, or the exception thrown instead of it
Handle(h, ok, frame_id, page_no, made) ==
    [h |-> h, ok |-> ok, frame_id |-> frame_id, page_no |-> page_no, made |-> made]

\* the outcome of a record operation: the state it leaves, whether it returned
\* (ok) or threw (err), the Rid or bytes returned, the frame of the page it used
\* and whether it allocated a page
RmRes(h, err, rid, data, frame_id, made) ==
    [h |-> h, ok |-> err = "none", err |-> err, rid |-> rid, data |-> data,
     frame_id |-> frame_id, made |-> made]

NoRid == [page_no |-> INVALID_PAGE_ID, slot_no |-> INVALID_PAGE_ID]

\* fetch_page_handle: the handle on the fetched page, or the exception thrown
\* when fetch_page returned nullptr
HandleOn(h, r, page_no) ==
    Handle([h EXCEPT !.st = r.st], r.ok, r.frame_id, page_no, FALSE)

fetch_page_handle(h, page_no) ==
    HandleOn(h, fetch_page(h.st, [fd |-> fd_, page_no |-> page_no]), page_no)

\* create_new_page_handle after new_page returned r: the page header and the
\* bitmap are initialised in place (the slots are not), num_pages grows
InitNewPage(h, r) ==
    IF ~r.ok
    THEN Handle(h, FALSE, NoFrame, INVALID_PAGE_ID, FALSE)
    ELSE Handle([h EXCEPT
                   !.st = [r.st EXCEPT !.pgs[r.frame_id].data_ =
                             Pack([Unpack(@) EXCEPT
                                     !.next_free_page_no = RM_NO_FREE_PAGE,
                                     !.num_records = 0,
                                     !.bitmap = [i \in SlotNos |-> FALSE]])],
                   !.hdr.num_pages = @ + 1],
                TRUE, r.frame_id, r.id.page_no, TRUE)

create_new_page_handle(h) == InitNewPage(h, new_page(h.st, fd_))

create_page_handle(h) ==
    IF h.hdr.first_free_page_no # RM_NO_FREE_PAGE
    THEN fetch_page_handle(h, h.hdr.first_free_page_no)
    ELSE create_new_page_handle(h)

\* a release_page_handle that makes the page the head and leaves its link
release_page_handle_keeps_link(h, f) ==
    Unpin([h EXCEPT !.hdr.first_free_page_no = h.st.pgs[f].id_.page_no], f, TRUE)

\* release_page_handle: link the page in front of the free-page list, unpin dirty
release_page_handle(h, f) ==
    Unpin([SetPage(h, f, [PageOf(h, f) EXCEPT
                            !.next_free_page_no = h.hdr.first_free_page_no])
             EXCEPT !.hdr.first_free_page_no = h.st.pgs[f].id_.page_no],
          f, TRUE)

\* the failure returns of the record operations on the handle ph
FetchFailed(ph) == RmRes(ph.h, "PageFetchFailed", NoRid, ZeroPage, NoFrame, FALSE)
\* a RecordNotFound return that throws without unpinning the page
NotFound_keeps_pin(ph) ==
    RmRes(ph.h, "RecordNotFound", NoRid, ZeroPage, ph.frame_id, FALSE)

NotFound(ph) ==
    RmRes(Unpin(ph.h, ph.frame_id, FALSE), "RecordNotFound", NoRid, ZeroPage,
          ph.frame_id, FALSE)

\* get_record once the page handle ph is there
GetIn(ph, rid) ==
    IF ~ph.ok THEN FetchFailed(ph)
    ELSE IF ~is_set(PageOf(ph.h, ph.frame_id).bitmap, rid.slot_no) THEN NotFound(ph)
    ELSE RmRes(Unpin(ph.h, ph.frame_id, FALSE), "none", rid,
               PageOf(ph.h, ph.frame_id).slots[rid.slot_no], ph.frame_id, FALSE)

get_record(h, rid) == GetIn(fetch_page_handle(h, rid.page_no), rid)

\* an insert_record that sets the bit and copies the bytes but leaves
\* num_records as it was
InsertAt_keeps_count(ph, v, slot_no, buf) ==
    IF slot_no = INT_MAX
    THEN RmRes(Unpin(ph.h, ph.frame_id, FALSE), "PageFull", NoRid, ZeroPage,
               ph.frame_id, ph.made)
    ELSE RmRes(Unpin(SetPage(ph.h, ph.frame_id,
                             [v EXCEPT !.bitmap[slot_no] = TRUE,
                                       !.slots[slot_no] = buf]),
                     ph.frame_id, TRUE),
               "none",
               [page_no |-> ph.h.st.pgs[ph.frame_id].id_.page_no, slot_no |-> slot_no],
               buf, ph.frame_id, ph.made)

\* insert_record from the slot found on: bit set, bytes copied, num_records++,
\* and the free-list head advanced when this fills the page that is the head
InsertAt(ph, v, slot_no, buf) ==
    IF slot_no = INT_MAX
    THEN RmRes(Unpin(ph.h, ph.frame_id, FALSE), "PageFull", NoRid, ZeroPage,
               ph.frame_id, ph.made)
    ELSE RmRes(Unpin([SetPage(ph.h, ph.frame_id,
                              [v EXCEPT !.bitmap[slot_no] = TRUE,
                                        !.slots[slot_no] = buf,
                                        !.num_records = @ + 1])
                        EXCEPT !.hdr.first_free_page_no =
                          IF /\ v.num_records + 1 = ph.h.hdr.num_records_per_page
                             /\ @ = ph.h.st.pgs[ph.frame_id].id_.page_no
                          THEN v.next_free_page_no
                          ELSE @],
                     ph.frame_id, TRUE),
               "none",
               [page_no |-> ph.h.st.pgs[ph.frame_id].id_.page_no, slot_no |-> slot_no],
               buf, ph.frame_id, ph.made)

InsertIn(ph, v, buf) ==
    InsertAt(ph, v, first_bit(FALSE, v.bitmap, ph.h.hdr.num_records_per_page), buf)

InsertOn(ph, buf) ==
    IF ~ph.ok THEN FetchFailed(ph) ELSE InsertIn(ph, PageOf(ph.h, ph.frame_id), buf)

insert_record(h, buf) == InsertOn(create_page_handle(h), buf)

\* delete_record after the bit was reset and num_records decremented
DeleteDone(h, f, rid) ==
    RmRes(IF PageOf(h, f).num_records + 1 = h.hdr.num_records_per_page
          THEN release_page_handle(h, f)
          ELSE Unpin(h, f, TRUE),
          "none", rid, ZeroPage, f, FALSE)

\* a delete_record that resets the bit without testing it first
DeleteIn_unchecked(ph, v, rid) ==
    DeleteDone(SetPage(ph.h, ph.frame_id,
                       [v EXCEPT !.bitmap[rid.slot_no] = FALSE,
                                 !.num_records = @ - 1]),
               ph.frame_id, rid)

DeleteIn(ph, v, rid) ==
    IF ~is_set(v.bitmap, rid.slot_no) THEN NotFound(ph)
    ELSE DeleteDone(SetPage(ph.h, ph.frame_id,
                            [v EXCEPT !.bitmap[rid.slot_no] = FALSE,
                                      !.num_records = @ - 1]),
                    ph.frame_id, rid)

DeleteOn(ph, rid) ==
    IF ~ph.ok THEN FetchFailed(ph) ELSE DeleteIn(ph, PageOf(ph.h, ph.frame_id), rid)

delete_record(h, rid) == DeleteOn(fetch_page_handle(h, rid.page_no), rid)

\* an update_record whose memcpy runs over the slots behind the one of rid
UpdateIn_overruns_slot(ph, v, rid, buf) ==
    IF ~is_set(v.bitmap, rid.slot_no) THEN NotFound(ph)
    ELSE RmRes(Unpin(SetPage(ph.h, ph.frame_id,
                             [v EXCEPT !.slots = [i \in SlotNos |->
                                 IF i >= rid.slot_no THEN buf ELSE v.slots[i]]]),
                     ph.frame_id, TRUE),
               "none", rid, buf, ph.frame_id, FALSE)

UpdateIn(ph, v, rid, buf) ==
    IF ~is_set(v.bitmap, rid.slot_no) THEN NotFound(ph)
    ELSE RmRes(Unpin(SetPage(ph.h, ph.frame_id, [v EXCEPT !.slots[rid.slot_no] = buf]),
                     ph.frame_id, TRUE),
               "none", rid, buf, ph.frame_id, FALSE)

UpdateOn(ph, rid, buf) ==
    IF ~ph.ok THEN FetchFailed(ph)
    ELSE UpdateIn(ph, PageOf(ph.h, ph.frame_id), rid, buf)

update_record(h, rid, buf) == UpdateOn(fetch_page_handle(h, rid.page_no), rid, buf)

----------------------------------------------------------------------------
(***************************************************************************)
(* SpecRm: one open heap file; a single caller issues get_record,          *)
(* insert_record, delete_record and update_record with any Rid and any     *)
(* payload.  live observes which Rids hold a record and its bytes.         *)
(***************************************************************************)
DoRm(r) ==
    /\ nops < MaxOps
    /\ pages_' = r.h.st.pgs
    /\ page_table_' = r.h.st.table
    /\ free_list_' = r.h.st.free
    /\ LRUlist_' = r.h.st.lru
    /\ disk' = r.h.st.dsk
    /\ fd2pageno_' = r.h.st.f2p
    /\ file_hdr_' = r.h.hdr
    /\ nops' = nops + 1
    /\ UNCHANGED <<dirtied, idle, holds, lastWrite, others>>

\* rid now holds the bytes buf, written by insert_record or by update_record
SetLive(rid, buf, by) ==
    [k \in (DOMAIN live) \cup {rid} |->
        IF k = rid THEN [data |-> buf, by |-> by] ELSE live[k]]

GetRecord(rid) ==
    /\ DoRm(get_record(HSt, rid))
    /\ UNCHANGED live

Inserted(r, buf) ==
    /\ DoRm(r)
    /\ live' = IF r.ok THEN SetLive(r.rid, buf, "insert") ELSE live

InsertRecord(buf) ==
    /\ file_hdr_.first_free_page_no = RM_NO_FREE_PAGE => fd2pageno_[fd_] < MaxPageNo
    /\ Inserted(insert_record(HSt, buf), buf)

Deleted(r, rid) ==
    /\ DoRm(r)
    /\ live' = IF r.ok THEN [k \in (DOMAIN live) \ {rid} |-> live[k]] ELSE live

DeleteRecord(rid) == Deleted(delete_record(HSt, rid), rid)

Updated(r, rid, buf) ==
    /\ DoRm(r)
    /\ live' = IF r.ok THEN SetLive(rid, buf, "update") ELSE live

UpdateRecord(rid, buf) == Updated(update_record(HSt, rid, buf), rid, buf)

\* the bytes of page 0 of the file, the serialized file header {record_size,
\* records_per_page, bitmap_size_bytes, page_count, free_list_head}: read as a
\* data page, records_per_page lies where a page keeps num_records and the
\* non-zero bitmap_size_bytes where the bitmap starts, so some bit reads as set
\* (record_size, where a page keeps its next-free link, names no page of the
\* bounded file and reads as the sentinel)
HdrImage(rpp) ==
    Pack([next_free_page_no |-> RM_NO_FREE_PAGE, num_records |-> rpp,
          bitmap |-> [i \in SlotNos |-> \A j \in SlotNos : i <= j],
          slots |-> [i \in SlotNos |-> ZeroPage]])

\* a heap file just created and opened: page count 1, no free page, the page
\* counter of the descriptor set to the page count, an empty pool
InitRm ==
    /\ \E rpp \in 1 .. MaxRpp :
          /\ file_hdr_ = [num_pages |-> 1, first_free_page_no |-> RM_NO_FREE_PAGE,
                          num_records_per_page |-> rpp]
          /\ disk = [fd \in Fds |-> <<HdrImage(rpp)>>]
    /\ fd2pageno_ = [fd \in Fds |-> 1]
    /\ pages_ = [f \in RmFrames |-> [id_ |-> InvalidId, pin_count_ |-> 0,
                                     is_dirty_ |-> FALSE, data_ |-> ZeroPage]]
    /\ page_table_ = <<>>
    /\ free_list_ = [i \in 1 .. RmPoolSize |-> i - 1]
    /\ LRUlist_ = <<>>
    /\ dirtied = [f \in Frames |-> FALSE]
    /\ idle = <<>>
    /\ holds = [t \in Threads |-> {}]
    /\ lastWrite = <<>>
    /\ live = <<>>
    /\ nops = 0
    /\ InitOthers

NextRm ==
    \/ \E rid \in Rids : GetRecord(rid)
    \/ \E buf \in Data : InsertRecord(buf)
    \/ \E rid \in Rids : DeleteRecord(rid)
    \/ \E rid \in Rids, buf \in Data : UpdateRecord(rid, buf)

SpecRm == InitRm /\ [][NextRm]_vars

----------------------------------------------------------------------------
(***************************************************************************)
(* Claims on the heap file                                                 *)
(***************************************************************************)
\* get_record(rid) returns the bytes recorded for the live Rid rid
Reads(rid) ==
    /\ get_record(HSt, rid).ok
    /\ get_record(HSt, rid).data = live[rid].data

\* C11: round trip: get_record(rid) on the Rid returned by insert_record(buf)
\* returns buf, right after the insert and after any other operations that
\* neither delete nor update rid.
C11_InsertGetRoundTrip ==
    /\ \A buf \in Data :
          insert_record(HSt, buf).ok =>
             /\ get_record(insert_record(HSt, buf).h, insert_record(HSt, buf).rid).ok
             /\ get_record(insert_record(HSt, buf).h,
                           insert_record(HSt, buf).rid).data = buf
    /\ \A rid \in DOMAIN live : live[rid].by = "insert" => Reads(rid)

\* the round trip with no operation between the insert and the get
C11_ImmediateRoundTrip ==
    \A buf \in Data :
        insert_record(HSt, buf).ok =>
           /\ get_record(insert_record(HSt, buf).h, insert_record(HSt, buf).rid).ok
           /\ get_record(insert_record(HSt, buf).h,
                         insert_record(HSt, buf).rid).data = buf

\* C12: a Rid is a stable, unique address between its insert and its delete:
\* insert_record never returns a Rid that is live, and get_record on a live Rid
\* returns the bytes last written to it by its insert or a later update.
C12_RidStableUnique ==
    /\ \A buf \in Data :
          insert_record(HSt, buf).ok => insert_record(HSt, buf).rid \notin DOMAIN live
    /\ \A rid \in DOMAIN live : Reads(rid)

\* the data pages of the file: page 0 is the file header
DataPages == 1 .. (file_hdr_.num_pages - 1)

\* the outcome of a record operation that found the bit of rid clear
FailsUnchanged(r, rid) ==
    /\ r.err = "RecordNotFound"
    /\ r.h.hdr = file_hdr_
    /\ PageView(r.h, rid.page_no) = PageView(HSt, rid.page_no)

\* C13: get_record, update_record and delete_record on a Rid whose bitmap bit
\* is clear fail with RecordNotFound and leave the page's bitmap, num_records,
\* slot bytes and next-free link and the file header unchanged; in particular
\* get_record(rid) right after a successful delete_record(rid) fails so.
C13_ClearBitFails ==
    \A rid \in Rids :
        /\ ~is_set(PageView(HSt, rid.page_no).bitmap, rid.slot_no) =>
              /\ FailsUnchanged(get_record(HSt, rid), rid)
              /\ FailsUnchanged(delete_record(HSt, rid), rid)
              /\ \A buf \in Data : FailsUnchanged(update_record(HSt, rid, buf), rid)
        /\ delete_record(HSt, rid).ok =>
              get_record(delete_record(HSt, rid).h, rid).err = "RecordNotFound"

\* the Rid of a deleted record, whose bytes are still in the slot, beside a
\* live record and a Rid of a page never allocated
C13_Witness ==
    /\ \E rid \in Rids :
          /\ rid.page_no \in DataPages
          /\ ~is_set(PageView(HSt, rid.page_no).bitmap, rid.slot_no)
          /\ PageView(HSt, rid.page_no).slots[rid.slot_no] # ZeroPage
          /\ get_record(HSt, rid).err = "RecordNotFound"
    /\ \E rid \in Rids : rid.page_no >= file_hdr_.num_pages
    /\ \E rid \in DOMAIN live : delete_record(HSt, rid).ok

\* the most insert_record calls a file of MaxPageNo pages can take
InsertTries == MaxRpp * MaxPageNo

\* some call of a run of at most n insert_record calls from h returns rid
RECURSIVE ReusedWithin(_, _, _)
ReusedAfter(r, rid, n) ==
    /\ r.ok
    /\ \/ r.rid = rid
       \/ ReusedWithin(r.h, rid, n - 1)

ReusedWithin(h, rid, n) ==
    /\ n > 0
    /\ ReusedAfter(insert_record(h, ZeroPage), rid, n)

\* C14: after delete_record(rid) succeeds the freed slot is available to a
\* later insert_record: a finite run of insert_record calls with no further
\* delete returns a Rid equal to rid, whatever num_records_per_page is.
C14_FreedSlotReused ==
    \A rid \in DOMAIN live :
        delete_record(HSt, rid).ok =>
            ReusedWithin(delete_record(HSt, rid).h, rid, InsertTries)

\* the same for a record deleted from a page that was exactly full
C14_FullPageSlotReused ==
    \A rid \in DOMAIN live :
        /\ delete_record(HSt, rid).ok
        /\ PageView(HSt, rid.page_no).num_records = file_hdr_.num_records_per_page
        => ReusedWithin(delete_record(HSt, rid).h, rid, InsertTries)

\* the pages met on the first n links of the free-page list that starts at
\* page_no
RECURSIVE Walk(_, _, _)
Walk(h, page_no, n) ==
    IF page_no = RM_NO_FREE_PAGE \/ n = 0
    THEN {}
    ELSE {page_no} \cup Walk(h, PageView(h, page_no).next_free_page_no, n - 1)

FreePages == Walk(HSt, file_hdr_.first_free_page_no, MaxPageNo + 1)

HasRoom(page_no) ==
    PageView(HSt, page_no).num_records < file_hdr_.num_records_per_page

\* C15: every data page (1 <= page_no < num_pages) whose num_records is below
\* num_records_per_page is reachable from file_hdr_.first_free_page_no, so
\* insert_record allocates a new page only when every data page is full.
C15_FreeListHoldsSparePages ==
    /\ \A page_no \in DataPages : HasRoom(page_no) => page_no \in FreePages
    /\ \A buf \in Data :
          insert_record(HSt, buf).made => \A page_no \in DataPages : ~HasRoom(page_no)

\* the free-page list that starts at page_no reaches the sentinel within n
\* links without meeting a page of seen again
RECURSIVE EndsAtSentinel(_, _, _, _)
EndsAtSentinel(h, page_no, seen, n) ==
    \/ page_no = RM_NO_FREE_PAGE
    \/ /\ n > 0
       /\ page_no \notin seen
       /\ EndsAtSentinel(h, PageView(h, page_no).next_free_page_no,
                         seen \cup {page_no}, n - 1)

\* C16: the free-page list that starts at file_hdr_.first_free_page_no is
\* finite and acyclic, ends at RM_NO_FREE_PAGE, holds no page twice and holds
\* no page whose num_records equals num_records_per_page.
C16_FreeListWellFormed ==
    /\ EndsAtSentinel(HSt, file_hdr_.first_free_page_no, {}, MaxPageNo + 1)
    /\ \A page_no \in FreePages :
          PageView(HSt, page_no).num_records # file_hdr_.num_records_per_page

\* the bytes page page_no of the file holds in state h: those of its frame
\* when the page is cached, else those on disk
StoredBytes(s, page_id) ==
    IF page_id \in DOMAIN s.table
    THEN s.pgs[s.table[page_id]].data_
    ELSE read_page(s.dsk, page_id.fd, page_id.page_no)

Stored(h, page_no) == Unpack(StoredBytes(h.st, [fd |-> fd_, page_no |-> page_no]))

\* the next-free links of the pages of the file
Links(h) ==
    [page_no \in 0 .. (MaxPageNo - 1) |-> Stored(h, page_no).next_free_page_no]

\* delete_record, with outcome r, relinked the page of rid as the list head
Relinked(r, rid) ==
    /\ r.h.hdr.first_free_page_no = rid.page_no
    /\ PageView(r.h, rid.page_no).next_free_page_no = file_hdr_.first_free_page_no
    /\ create_page_handle(r.h).ok
    /\ create_page_handle(r.h).page_no = rid.page_no
    /\ ~create_page_handle(r.h).made

\* every copy of a next-free link the state keeps, in a frame or on disk,
\* with the page it belongs to
LinkCopies(s) ==
    {<<s.pgs[f].id_.page_no, Unpack(s.pgs[f].data_).next_free_page_no>> :
        f \in {g \in DOMAIN s.pgs : s.pgs[g].id_.fd = fd_}}
    \cup {<<page_no, Unpack(read_page(s.dsk, fd_, page_no)).next_free_page_no>> :
            page_no \in PageNos}

\* every frame that holds a page is the frame page_table_ maps that page to
Coherent(s) ==
    \A f \in DOMAIN s.pgs :
        s.pgs[f].id_.page_no # INVALID_PAGE_ID =>
            /\ s.pgs[f].id_ \in DOMAIN s.table
            /\ s.table[s.pgs[f].id_] = f

\* delete_record, with outcome r, left the free-page list alone: the head is
\* the same, no frame and no disk page holds a link it did not hold before,
\* and every page's link reads the same
NotRelinked(r) ==
    /\ r.h.hdr.first_free_page_no = file_hdr_.first_free_page_no
    /\ LinkCopies(r.h.st) \subseteq LinkCopies(St)
    /\ Coherent(St) => Links(r.h) = Links(HSt)

C17_WitnessNotFull ==
    \E rid \in DOMAIN live :
        /\ rid.page_no \in DataPages
        /\ PageView(HSt, rid.page_no).num_records < file_hdr_.num_records_per_page
        /\ delete_record(HSt, rid).ok

\* the number of set bits of a bitmap
popcount(bm) == Cardinality({i \in DOMAIN bm : bm[i]})

\* every copy of a data page the state keeps, in a frame or on disk
DataPageCopies(s) ==
    {Unpack(s.pgs[f].data_) :
        f \in {g \in DOMAIN s.pgs : /\ s.pgs[g].id_.fd = fd_
                                    /\ s.pgs[g].id_.page_no \in DataPages}}
    \cup {Unpack(read_page(s.dsk, fd_, page_no)) : page_no \in DataPages}
    \cup {PageView(HSt, page_no) : page_no \in DataPages}

\* C18: for every data page of the file, in every state between the record
\* operations, failed ones included, the number of set bits of the page's
\* bitmap equals num_records in its header, and 0 <= num_records <=
\* num_records_per_page.
C18_PopcountIsNumRecords ==
    \A v \in DataPageCopies(St) :
        /\ popcount(v.bitmap) = v.num_records
        /\ 0 <= v.num_records
        /\ v.num_records <= file_hdr_.num_records_per_page

\* a data page that holds a record, beside a data page a record was deleted
\* from, with slots to spare
C18_Witness ==
    /\ file_hdr_.num_records_per_page = MaxRpp
    /\ \E rid \in DOMAIN live :
          /\ rid.page_no \in DataPages
          /\ PageView(HSt, rid.page_no).num_records = 1
          /\ popcount(PageView(HSt, rid.page_no).bitmap) = 1
    /\ \E rid \in Rids :
          /\ rid.page_no \in DataPages
          /\ PageView(HSt, rid.page_no).num_records = 0
          /\ ~is_set(PageView(HSt, rid.page_no).bitmap, rid.slot_no)
          /\ PageView(HSt, rid.page_no).slots[rid.slot_no] # ZeroPage

\* every copy of the bytes of page 0 the state keeps, in a frame or on disk
Page0Copies(s) ==
    {s.pgs[f].data_ :
        f \in {g \in DOMAIN s.pgs : s.pgs[g].id_ = [fd |-> fd_, page_no |-> 0]}}
    \cup {read_page(s.dsk, fd_, 0)}

\* the record operation with outcome r wrote nothing into page 0
Page0Kept(r) == Page0Copies(r.h.st) \subseteq Page0Copies(St)

\* the Rid of a successful insert_record with outcome r is on a data page
OnDataPage(r) ==
    r.ok => /\ r.rid.page_no >= 1
            /\ r.rid.page_no < r.h.hdr.num_pages

\* C19: page 0 of the file is never used as a data page: every Rid
\* insert_record returns, on a file opened with num_pages = 1, has
\* 1 <= page_no < num_pages, and no insert_record, delete_record or
\* update_record writes a page header, bitmap or slot into page 0.
C19_PageZeroNeverDataPage ==
    /\ \A buf \in Data :
          /\ OnDataPage(insert_record(HSt, buf))
          /\ Page0Kept(insert_record(HSt, buf))
    /\ \A rid \in Rids :
          /\ Page0Kept(delete_record(HSt, rid))
          /\ \A buf \in Data : Page0Kept(update_record(HSt, rid, buf))

\* a page insert_record allocates is numbered num_pages, which is 1 or more
C19_AllocatesFromPageOne ==
    \A buf \in Data :
        insert_record(HSt, buf).made =>
            /\ insert_record(HSt, buf).ok
            /\ insert_record(HSt, buf).rid.page_no = file_hdr_.num_pages
            /\ file_hdr_.num_pages >= 1
            /\ insert_record(HSt, buf).h.hdr.num_pages = file_hdr_.num_pages + 1

\* the same for the record operations on Rids of data pages only
C19_DataPageRidsKeepPageZero ==
    /\ \A buf \in Data :
          /\ OnDataPage(insert_record(HSt, buf))
          /\ Page0Kept(insert_record(HSt, buf))
    /\ \A rid \in Rids :
          rid.page_no \in DataPages =>
              /\ Page0Kept(delete_record(HSt, rid))
              /\ \A buf \in Data : Page0Kept(update_record(HSt, rid, buf))

\* the pin count of a page: that of its frame, zero when it is not cached
PinCountOf(s, page_id) ==
    IF page_id \in DOMAIN s.table THEN s.pgs[s.table[page_id]].pin_count_ ELSE 0

\* the record operation with outcome r left every pin count as it was
PinsKept(r) ==
    /\ \A page_id \in PageIds : PinCountOf(r.h.st, page_id) = PinCountOf(St, page_id)
    /\ \A f \in DOMAIN pages_ : r.h.st.pgs[f].pin_count_ = pages_[f].pin_count_

\* the page the record operation with outcome r worked on was unpinned dirty
\* when the operation succeeded, and its dirty flag is as the page handle ph
\* found it when the operation failed
DirtyAsDue(r, ph) ==
    IF r.ok
    THEN r.h.st.pgs[r.frame_id].is_dirty_
    ELSE ph.ok => r.h.st.pgs[ph.frame_id].is_dirty_ = ph.h.st.pgs[ph.frame_id].is_dirty_

\* get_record with outcome r never marks the page dirty
DirtyKept(r, ph) ==
    ph.ok => r.h.st.pgs[ph.frame_id].is_dirty_ = ph.h.st.pgs[ph.frame_id].is_dirty_

\* C20: after get_record, insert_record, delete_record or update_record
\* returns or fails (RecordNotFound, PageFull) every page's pin count is what
\* it was before the call; the page is unpinned dirty by a successful insert,
\* delete or update and not dirty by get_record and on the failure paths.
C20_PinsBalanced ==
    /\ \A rid \in Rids :
          /\ PinsKept(get_record(HSt, rid))
          /\ DirtyKept(get_record(HSt, rid), fetch_page_handle(HSt, rid.page_no))
          /\ PinsKept(delete_record(HSt, rid))
          /\ DirtyAsDue(delete_record(HSt, rid), fetch_page_handle(HSt, rid.page_no))
          /\ \A buf \in Data :
                /\ PinsKept(update_record(HSt, rid, buf))
                /\ DirtyAsDue(update_record(HSt, rid, buf),
                              fetch_page_handle(HSt, rid.page_no))
    /\ \A buf \in Data :
          /\ PinsKept(insert_record(HSt, buf))
          /\ DirtyAsDue(insert_record(HSt, buf), create_page_handle(HSt))

\* a full pool in which a get_record succeeds on a clean page, a delete_record
\* fails with RecordNotFound and an insert_record has to evict
C20_Witness ==
    /\ free_list_ = <<>>
    /\ \E rid \in DOMAIN live :
          /\ get_record(HSt, rid).ok
          /\ ~get_record(HSt, rid).h.st.pgs[get_record(HSt, rid).frame_id].is_dirty_
    /\ \E rid \in Rids :
          /\ rid.page_no \in DataPages
          /\ delete_record(HSt, rid).err = "RecordNotFound"
    /\ \E buf \in Data : insert_record(HSt, buf).ok

\* an insert_record that finds no clear bit on the page it was given
C20_WitnessPageFull ==
    \E buf \in Data : insert_record(HSt, buf).err = "PageFull"

\* update_record with outcome r wrote nothing but the frame of its page: the
\* other frames and the disk are as fetch_page_handle, with outcome ph, left
\* them
OneFrameWritten(r, ph) ==
    /\ r.h.st.dsk = ph.h.st.dsk
    /\ \A f \in DOMAIN pages_ :
          f # ph.frame_id => r.h.st.pgs[f].data_ = ph.h.st.pgs[f].data_

\* update_record(rid, buf) with outcome r changed the slot of rid and nothing
\* else of the page and of the file header
OnlySlotWritten(r, rid, buf) ==
    /\ PageView(r.h, rid.page_no) =
          [PageView(HSt, rid.page_no) EXCEPT !.slots[rid.slot_no] = buf]
    /\ r.h.hdr = file_hdr_
    /\ get_record(r.h, rid).ok
    /\ get_record(r.h, rid).data = buf

\* C24: update_record(rid, buf) on a live Rid overwrites the bytes of that
\* slot and nothing else: the page's bitmap, num_records and
\* next_free_page_no, every other slot, and the file header's num_pages and
\* first_free_page_no are unchanged, and the next get_record(rid) returns buf.
C24_UpdateWritesOneSlot ==
    \A rid \in Rids, buf \in Data :
        update_record(HSt, rid, buf).ok =>
            /\ is_set(PageView(HSt, rid.page_no).bitmap, rid.slot_no)
            /\ OnlySlotWritten(update_record(HSt, rid, buf), rid, buf)
            /\ OneFrameWritten(update_record(HSt, rid, buf),
                               fetch_page_handle(HSt, rid.page_no))

\* a live record on a data page of a file with MaxRpp slots per page, in a
\* full pool, that update_record gives other bytes
C24_Witness ==
    /\ free_list_ = <<>>
    /\ file_hdr_.num_records_per_page = MaxRpp
    /\ \E rid \in DOMAIN live, buf \in Data :
          /\ rid.page_no \in DataPages
          /\ live[rid].by = "update"
          /\ buf # live[rid].data
          /\ update_record(HSt, rid, buf).ok
          /\ get_record(update_record(HSt, rid, buf).h, rid).data = buf

----------------------------------------------------------------------------
(***************************************************************************)
(* DiskManager page I/O on its own: whole pages written to and read from   *)
(* the files of several descriptors.                                       *)
(***************************************************************************)
\* the descriptors of the open files
DiskFds == {0, 1}
\* page numbers a caller passes: one more than the pool ever asks for
DiskPageNos == 0 .. MaxPageNo

\* read_page: the buffer it fills and the files after it, which it never writes
ReadPageRes(dsk, fd, page_no) ==
    [dsk |-> dsk, data |-> read_page(dsk, fd, page_no)]

DiskWritePage(fd, page_no, buf) ==
    /\ disk' = write_page(disk, fd, page_no, buf)
    /\ UNCHANGED <<pool, fd2pageno_, dirtied, idle, holds, lastWrite,
                   file_hdr_, live, nops, rdbuf, tables, scan, thr>>

DiskReadPage(fd, page_no) ==
    /\ disk' = ReadPageRes(disk, fd, page_no).dsk
    /\ rdbuf' = [fd |-> fd, page_no |-> page_no,
                 data |-> ReadPageRes(disk, fd, page_no).data]
    /\ UNCHANGED <<pool, fd2pageno_, dirtied, idle, holds, lastWrite,
                   file_hdr_, live, nops, tables, scan, thr>>

InitDiskFiles ==
    /\ fd2pageno_ = [fd \in DiskFds |-> 0]
    /\ disk = [fd \in DiskFds |-> <<>>]
    /\ InitPool
    /\ dirtied = [f \in Frames |-> FALSE]
    /\ idle = <<>>
    /\ holds = [t \in Threads |-> {}]
    /\ lastWrite = <<>>
    /\ file_hdr_ = <<>>
    /\ live = <<>>
    /\ nops = 0
    /\ InitOthers

NextDisk ==
    \/ \E fd \in DiskFds, page_no \in DiskPageNos, buf \in Data :
          DiskWritePage(fd, page_no, buf)
    \/ \E fd \in DiskFds, page_no \in DiskPageNos : DiskReadPage(fd, page_no)

SpecDisk == InitDiskFiles /\ [][NextDisk]_vars

\* the number of pages of the file of fd
FileSize(dsk, fd) == Len(dsk[fd])

\* write_page(fd, page_no, buf) on dsk is read back, and no other page of any
\* file reads differently
ReadsBack(dsk, fd, page_no, buf) ==
    /\ read_page(write_page(dsk, fd, page_no, buf), fd, page_no) = buf
    /\ \A fd2 \in DiskFds, page_no2 \in DiskPageNos :
          <<fd2, page_no2>> # <<fd, page_no>> =>
              read_page(write_page(dsk, fd, page_no, buf), fd2, page_no2)
                  = read_page(dsk, fd2, page_no2)

\* C25: read_page(fd, page_no) at or beyond the end of the file returns an
\* all-zero buffer and does not grow the file; write_page(fd, page_no, buf)
\* followed by read_page(fd, page_no) returns buf, and every other page of
\* every file reads as before.
C25_DiskRoundTrip ==
    \A fd \in DiskFds, page_no \in DiskPageNos :
        /\ page_no >= FileSize(disk, fd) =>
              /\ ReadPageRes(disk, fd, page_no).data = ZeroPage
              /\ ReadPageRes(disk, fd, page_no).dsk = disk
        /\ \A buf \in Data : ReadsBack(disk, fd, page_no, buf)

\* a file with a hole and a non-zero page behind it, beside a shorter file, and
\* a read past the end of a file that returned zeros
C25_Witness ==
    /\ \E fd \in DiskFds :
          /\ FileSize(disk, fd) = MaxPageNo
          /\ disk[fd][1] = ZeroPage
          /\ disk[fd][MaxPageNo] # ZeroPage
    /\ \E fd \in DiskFds : FileSize(disk, fd) = 1 /\ disk[fd][1] # ZeroPage
    /\ rdbuf.fd \in DiskFds
    /\ rdbuf.page_no >= FileSize(disk, rdbuf.fd)
    /\ rdbuf.data = ZeroPage

----------------------------------------------------------------------------
(***************************************************************************)
(* The structure of the pool.                                              *)
(***************************************************************************)
\* the page-table entries whose target is frame f
EntriesOf(f) == {id \in DOMAIN page_table_ : page_table_[id] = f}

\* the frames whose id_ is page_id
HoldersOf(page_id) == {f \in DOMAIN pages_ : pages_[f].id_ = page_id}

\* C29: after any sequence of fetch_page (of any page number, allocated or
\* not), new_page, unpin_page, delete_page and flush calls, every frame is
\* either in the free list or the target of exactly one page-table entry,
\* never both and never neither; no two PageIds map to one frame and no PageId
\* is held by two frames; free frames plus page-table entries are pool_size_;
\* the replacer holds exactly the mapped frames whose pin count is 0.
C29_PoolStructure ==
    /\ \A f \in DOMAIN pages_ :
          IF f \in Range(free_list_)
          THEN EntriesOf(f) = {}
          ELSE Cardinality(EntriesOf(f)) = 1
    /\ \A page_id \in DOMAIN page_table_ : Cardinality(HoldersOf(page_id)) <= 1
    /\ Len(free_list_) + Cardinality(DOMAIN page_table_) = Cardinality(DOMAIN pages_)
    /\ Range(LRUlist_) =
          {f \in DOMAIN pages_ : /\ EntriesOf(f) # {}
                                 /\ pages_[f].pin_count_ = 0}

\* the part of C29 that does not depend on which page numbers were allocated:
\* no frame is both free and mapped, no two PageIds map to one frame, and the
\* free list holds no frame twice
C29_FreeOrMappedNotBoth ==
    /\ \A f \in DOMAIN pages_ : f \in Range(free_list_) => EntriesOf(f) = {}
    /\ \A f \in DOMAIN pages_ : Cardinality(EntriesOf(f)) <= 1
    /\ Cardinality(Range(free_list_)) = Len(free_list_)

----------------------------------------------------------------------------
(***************************************************************************)
(* DiskManager's table of open files: create_file, destroy_file,           *)
(* open_file, close_file and get_file_fd over the files of a directory.    *)
(***************************************************************************)
Paths == {"a", "b", "c"}
\* the process may hold one descriptor more than DiskManager tracks
OsMaxFd == MAX_FD + 1
OsFds == 0 .. (OsMaxFd - 1)

\* the DiskManager members and the operating system's view, as one value
FSt == [fd_occupied_ |-> fd_occupied_, fd2path_ |-> fd2path_,
        path2fd_ |-> path2fd_, osfds |-> osfds, fsfiles |-> fsfiles]

\* m[k] = v, inserting k          /  m.erase(k)
MapPut(m, k, v) == [x \in (DOMAIN m) \cup {k} |-> IF x = k THEN v ELSE m[x]]
MapErase(m, k) == [x \in (DOMAIN m) \ {k} |-> m[x]]

\* open(2): the lowest descriptor the process has free, -1 when it has none
OsOpen(t) ==
    IF OsFds \subseteq DOMAIN t.osfds THEN -1
    ELSE CHOOSE fd \in OsFds \ DOMAIN t.osfds :
             \A g \in OsFds \ DOMAIN t.osfds : fd <= g

FileRes(t, ok, fd) == [t |-> t, ok |-> ok, fd |-> fd]

is_file(t, path) == path \in t.fsfiles

create_file(t, path) ==
    IF is_file(t, path) THEN FileRes(t, FALSE, -1)
    ELSE IF OsOpen(t) = -1 THEN FileRes(t, FALSE, -1)
    ELSE FileRes([t EXCEPT !.fsfiles = @ \cup {path}], TRUE, -1)

destroy_file(t, path) ==
    IF ~is_file(t, path) THEN FileRes(t, FALSE, -1)
    ELSE IF \E fd \in 0 .. (MAX_FD - 1) :
                /\ t.fd_occupied_[fd]
                /\ fd \in DOMAIN t.fd2path_
                /\ t.fd2path_[fd] = path
         THEN FileRes(t, FALSE, -1)
    ELSE FileRes([t EXCEPT !.fsfiles = @ \ {path}], TRUE, -1)

open_file(t, path) ==
    IF ~is_file(t, path) THEN FileRes(t, FALSE, -1)
    ELSE LET fd == OsOpen(t) IN
         IF fd = -1 THEN FileRes(t, FALSE, -1)
         \* close(fd) and throw: the process's descriptors are as before
         ELSE IF fd >= MAX_FD THEN FileRes(t, FALSE, -1)
         ELSE IF t.fd_occupied_[fd] THEN FileRes(t, FALSE, -1)
         ELSE FileRes([t EXCEPT !.osfds = MapPut(@, fd, path),
                                !.fd_occupied_[fd] = TRUE,
                                !.fd2path_ = MapPut(@, fd, path)], TRUE, fd)

close_file(t, fd) ==
    IF fd < 0 \/ fd >= MAX_FD THEN FileRes(t, FALSE, -1)
    ELSE IF ~t.fd_occupied_[fd] THEN FileRes(t, FALSE, -1)
    ELSE IF fd \notin DOMAIN t.osfds THEN FileRes(t, FALSE, -1)
    ELSE FileRes([t EXCEPT !.osfds = MapErase(@, fd),
                           !.fd_occupied_[fd] = FALSE,
                           !.fd2path_ = MapErase(@, fd)], TRUE, -1)

get_file_fd(t, file_name) ==
    IF file_name \notin DOMAIN t.path2fd_ THEN open_file(t, file_name)
    ELSE FileRes(t, TRUE, t.path2fd_[file_name])

DoFile(r) ==
    /\ fd_occupied_' = r.t.fd_occupied_
    /\ fd2path_' = r.t.fd2path_
    /\ path2fd_' = r.t.path2fd_
    /\ osfds' = r.t.osfds
    /\ fsfiles' = r.t.fsfiles
    /\ UNCHANGED <<pool, disk, fd2pageno_, dirtied, idle, holds, lastWrite,
                   file_hdr_, live, nops, rdbuf, scan, thr>>

CreateFile(path) == DoFile(create_file(FSt, path))
DestroyFile(path) == DoFile(destroy_file(FSt, path))
OpenFile(path) == DoFile(open_file(FSt, path))
CloseFile(fd) == DoFile(close_file(FSt, fd))
GetFileFd(path) == DoFile(get_file_fd(FSt, path))

NextFiles ==
    \/ \E path \in Paths : CreateFile(path)
    \/ \E path \in Paths : DestroyFile(path)
    \/ \E path \in Paths : OpenFile(path)
    \/ \E fd \in -1 .. MAX_FD : CloseFile(fd)
    \/ \E path \in Paths : GetFileFd(path)

SpecFiles == Init /\ [][NextFiles]_vars

\* the descriptors DiskManager tracks for a path
TrackedFds(t, path) ==
    {fd \in 0 .. (MAX_FD - 1) :
        /\ t.fd_occupied_[fd]
        /\ fd \in DOMAIN t.fd2path_
        /\ t.fd2path_[fd] = path}

\* C26: get_file_fd(path) is memoized: after a call that opened the file,
\* a later call before the file is closed returns the same descriptor and
\* opens nothing, so no path is ever tracked by two descriptors.
C26_GetFileFdMemoized ==
    /\ \A path \in Paths :
         LET r1 == get_file_fd(FSt, path) IN
         r1.ok =>
            /\ get_file_fd(r1.t, path).ok
            /\ get_file_fd(r1.t, path).fd = r1.fd
            /\ get_file_fd(r1.t, path).t = r1.t
    /\ \A path \in Paths : Cardinality(TrackedFds(FSt, path)) <= 1

\* C27: each open path is tracked by at most one descriptor: open_file on a
\* path that is already open fails and leaves the tables as they were, and
\* path2fd_ and fd2path_ are inverse of each other.
C27_OnePathOneDescriptor ==
    /\ \A path \in Paths : Cardinality(TrackedFds(FSt, path)) <= 1
    /\ \A path \in Paths :
         TrackedFds(FSt, path) # {} =>
            /\ ~open_file(FSt, path).ok
            /\ open_file(FSt, path).t = FSt
    /\ \A fd \in DOMAIN fd2path_ :
            /\ fd2path_[fd] \in DOMAIN path2fd_
            /\ path2fd_[fd2path_[fd]] = fd
    /\ \A path \in DOMAIN path2fd_ :
            /\ path2fd_[path] \in DOMAIN fd2path_
            /\ fd2path_[path2fd_[path]] = path

\* what does hold of the tables: fd_occupied_ and fd2path_ name exactly the
\* descriptors the process holds, each with the path it was opened on, and
\* close_file fails on a descriptor that is not tracked
C27_TablesAgreeWithOs ==
    /\ fd2path_ = osfds
    /\ DOMAIN fd2path_ = {fd \in 0 .. (MAX_FD - 1) : fd_occupied_[fd]}
    /\ \A fd \in -1 .. MAX_FD :
         fd \notin DOMAIN fd2path_ =>
            ~close_file(FSt, fd).ok /\ close_file(FSt, fd).t = FSt
    /\ \A fd \in DOMAIN fd2path_ : fd2path_[fd] \in fsfiles


----------------------------------------------------------------------------
(***************************************************************************)
(* RmScan: a cursor over the records of a heap file.  The constructor and  *)
(* next() fetch page handles from the file handle; is_end() and rid() read *)
(* the cursor.                                                             *)
(***************************************************************************)
\* the caller issues at most ScanOps record operations before it scans
ScanOps == 4
\* and at most MaxNext calls on the scan, the constructor included
MaxNext == 6
\* pool sizes under the scanned file: fewer frames than data pages, and more
ScanPools == {1, RmPoolSize}

\* the outcome of the constructor or of next(): the state and the cursor it
\* leaves, whether it threw, and the pages it called fetch_page_handle on
ScanRes(h, rid, threw, fetched) ==
    [h |-> h, rid |-> rid, threw |-> threw, fetched |-> fetched]

\* fetch_page on a page number below zero that the pool does not hold: the
\* frame is taken and renamed, then read_page throws because lseek rejects
\* the negative offset; the frame is left out of the free list, the replacer
\* and the page table
fetch_page_lseek_fails(s, page_id) ==
    LET fv == find_victim_page(s) IN
    IF ~fv.ok
    THEN Fail(s)
    ELSE Res([fv.st EXCEPT !.pgs[fv.frame_id] = update_page(@, page_id)],
             FALSE, NoFrame, InvalidId, fv.from, fv.evicted, fv.io)

\* fetch_page_handle on any int
fetch_page_handle_int(h, page_no) ==
    IF page_no >= 0 \/ [fd |-> fd_, page_no |-> page_no] \in DOMAIN h.st.table
    THEN fetch_page_handle(h, page_no)
    ELSE HandleOn(h, fetch_page_lseek_fails(h.st, [fd |-> fd_, page_no |-> page_no]),
                  page_no)

\* the set slots of the page under ph from slot_no on
SetSlotsFrom(ph, slot_no) ==
    {i \in SlotNos : /\ i >= slot_no
                     /\ i < ph.h.hdr.num_records_per_page
                     /\ is_set(PageOf(ph.h, ph.frame_id).bitmap, i)}

RECURSIVE ScanPages(_, _, _, _)
\* the inner loop of next() on the fetched page, then the next turn of the
\* outer loop
ScanSlots(ph, page_no, slot_no, fetched) ==
    IF ~ph.ok
    THEN ScanRes(ph.h, [page_no |-> page_no, slot_no |-> slot_no], TRUE, fetched)
    ELSE IF SetSlotsFrom(ph, slot_no) # {}
    THEN ScanRes(ph.h,
                 [page_no |-> page_no,
                  slot_no |-> CHOOSE i \in SetSlotsFrom(ph, slot_no) :
                                 \A j \in SetSlotsFrom(ph, slot_no) : i <= j],
                 FALSE, fetched)
    ELSE ScanPages(ph.h, page_no + 1, 0, fetched)

\* the outer loop of next(): while (rid_.page_no < num_pages)
ScanPages(h, page_no, slot_no, fetched) ==
    IF page_no >= h.hdr.num_pages
    THEN ScanRes(h, [page_no |-> -1, slot_no |-> -1], FALSE, fetched)
    ELSE ScanSlots(fetch_page_handle_int(h, page_no), page_no, slot_no,
                   Append(fetched, page_no))

\* a next() that enters the page loop before it looks at num_pages
next_fetches_first(h, rid) ==
    IF rid.page_no = 0 /\ rid.slot_no = -1
    THEN ScanSlots(fetch_page_handle_int(h, 1), 1, 0, <<1>>)
    ELSE ScanPages(h, rid.page_no, rid.slot_no + 1, <<>>)

\* RmScan::next
next(h, rid) ==
    IF h.hdr.num_pages <= 1
    THEN ScanRes(h, [rid EXCEPT !.page_no = -1], FALSE, <<>>)
    ELSE IF rid.page_no = 0 /\ rid.slot_no = -1
    THEN ScanPages(h, 1, 0, <<>>)
    ELSE ScanPages(h, rid.page_no, rid.slot_no + 1, <<>>)

\* RmScan::RmScan
RmScan(h) == next(h, [page_no |-> 0, slot_no |-> -1])

\* RmScan::is_end
is_end(rid) == rid.page_no = -1

\* RmScan::rid: the cursor, or the exception thrown at the end
scan_rid(rid) == [ok |-> ~is_end(rid), rid |-> rid]

DoScan(r) ==
    /\ pages_' = r.h.st.pgs
    /\ page_table_' = r.h.st.table
    /\ free_list_' = r.h.st.free
    /\ LRUlist_' = r.h.st.lru
    /\ disk' = r.h.st.dsk
    /\ fd2pageno_' = r.h.st.f2p
    /\ file_hdr_' = r.h.hdr
    /\ rid_' = r.rid
    /\ scanlog' = Append(scanlog, [rid |-> r.rid, threw |-> r.threw,
                                   fetched |-> r.fetched])
    /\ UNCHANGED <<dirtied, idle, holds, lastWrite, live, nops, rdbuf, tables, thr>>

\* for (RmScan rmScan(fh); ...
ScanNew ==
    /\ scanlog = <<>>
    /\ DoScan(RmScan(HSt))

\* ...; rmScan.next()): on a scan whose constructor returned
ScanNext ==
    /\ scanlog # <<>>
    /\ ~scanlog[1].threw
    /\ Len(scanlog) < MaxNext
    /\ DoScan(next(HSt, rid_))

\* the record operations that fill the file before the scan
ScanFill ==
    /\ scanlog = <<>>
    /\ nops < ScanOps
    /\ NextRm

InitScanFile ==
    /\ \E rpp \in 1 .. MaxRpp :
          /\ file_hdr_ = [num_pages |-> 1, first_free_page_no |-> RM_NO_FREE_PAGE,
                          num_records_per_page |-> rpp]
          /\ disk = [fd \in Fds |-> <<HdrImage(rpp)>>]
    /\ fd2pageno_ = [fd \in Fds |-> 1]
    /\ \E n \in ScanPools :
          /\ pages_ = [f \in 0 .. (n - 1) |->
                          [id_ |-> InvalidId, pin_count_ |-> 0,
                           is_dirty_ |-> FALSE, data_ |-> ZeroPage]]
          /\ free_list_ = [i \in 1 .. n |-> i - 1]
    /\ page_table_ = <<>>
    /\ LRUlist_ = <<>>
    /\ dirtied = [f \in Frames |-> FALSE]
    /\ idle = <<>>
    /\ holds = [t \in Threads |-> {}]
    /\ lastWrite = <<>>
    /\ live = <<>>
    /\ nops = 0
    /\ InitOthers

NextScan ==
    \/ ScanFill
    \/ ScanNew
    \/ ScanNext

SpecScan == InitScanFile /\ [][NextScan]_vars


\* the constructor has returned and the scan can be advanced
Scanning == scanlog # <<>> /\ ~scanlog[1].threw

\* C21: each page a scan visits is fetched and then unpinned, not dirtied:
\* after the RmScan constructor or any next() returns every page's pin count
\* is what it was before the call, so a finished scan leaves no page pinned,
\* and no call of a scan fails for want of a frame, however many data pages
\* the file has.
C21_ScanUnpins ==
    /\ scanlog = <<>> => PinsKept(RmScan(HSt))
    /\ Scanning => PinsKept(next(HSt, rid_))
    /\ (Scanning /\ is_end(rid_)) =>
          \A f \in DOMAIN pages_ : pages_[f].pin_count_ = 0
    /\ \A i \in DOMAIN scanlog : ~scanlog[i].threw


\* a scan of a file of two data pages, filled by two inserts, over a pool of
\* one frame: the page the constructor left pinned holds the frame and the
\* next() that moves on to the second page throws
C21_ScanStarves ==
    /\ DOMAIN pages_ = {0}
    /\ file_hdr_.num_pages = 3
    /\ nops = 2
    /\ Len(scanlog) = 2
    /\ scanlog[1].rid = [page_no |-> 1, slot_no |-> 0]
    /\ scanlog[2].threw
    /\ scanlog[2].fetched = <<1, 2>>
    /\ pages_[0].pin_count_ = 2


\* C23: a scan over a file whose page count is at most 1 (the header page
\* only) has is_end() true right after construction, and the constructor
\* fetches no page: the pool and the file are as they were.
C23_EmptyFileScanEndsAtOnce ==
    /\ file_hdr_.num_pages <= 1 =>
          /\ is_end(RmScan(HSt).rid)
          /\ ~RmScan(HSt).threw
          /\ RmScan(HSt).fetched = <<>>
          /\ RmScan(HSt).h = HSt
    /\ (scanlog # <<>> /\ file_hdr_.num_pages <= 1) =>
          /\ is_end(scanlog[1].rid)
          /\ ~scanlog[1].threw
          /\ scanlog[1].fetched = <<>>

\* a scan constructed on a file without data pages, after record operations
\* that left frames of the pool in use
C23_Witness ==
    /\ file_hdr_.num_pages <= 1
    /\ Len(scanlog) = 1
    /\ is_end(rid_)
    /\ scanlog[1].fetched = <<>>
    /\ nops > 0
    /\ page_table_ # <<>>


\* the calls of the scan up to its first end: the position of the first call
\* that left is_end() true, or one past the log when there is none yet
FirstEnd ==
    IF \E i \in DOMAIN scanlog : is_end(scanlog[i].rid)
    THEN CHOOSE i \in DOMAIN scanlog :
            /\ is_end(scanlog[i].rid)
            /\ \A j \in 1 .. (i - 1) : ~is_end(scanlog[j].rid)
    ELSE Len(scanlog) + 1

\* the Rids the loop for (RmScan s(fh); !s.is_end(); s.next()) has got from
\* s.rid() so far
Yielded == [i \in 1 .. (FirstEnd - 1) |-> scanlog[i].rid]

\* (page_no, slot_no) order
RidLess(a, b) ==
    \/ a.page_no < b.page_no
    \/ a.page_no = b.page_no /\ a.slot_no < b.slot_no

\* the Rids whose bit is set on the data pages of the file
SetRids ==
    {rid \in Rids :
        /\ rid.page_no \in DataPages
        /\ rid.slot_no < file_hdr_.num_records_per_page
        /\ is_set(Stored(HSt, rid.page_no).bitmap, rid.slot_no)}

\* what the scan has yielded is in order and names set slots of data pages
YieldsInOrder ==
    /\ \A i \in DOMAIN Yielded : ~scanlog[i].threw => Yielded[i] \in SetRids
    /\ \A i, j \in DOMAIN Yielded :
          (i < j /\ ~scanlog[i].threw /\ ~scanlog[j].threw)
             => RidLess(Yielded[i], Yielded[j])

\* a scan that has reached its end has yielded every set slot
YieldsAll ==
    FirstEnd \in DOMAIN scanlog => {Yielded[i] : i \in DOMAIN Yielded} = SetRids

\* C22: constructing an RmScan and calling next() until is_end() yields
\* exactly the Rids whose bit is set on the data pages 1 .. num_pages-1, each
\* once, in strictly ascending (page_no, slot_no) order, never a Rid of page 0
\* or of an empty slot, and then reaches the end.
C22_ScanYieldsSetRids ==
    /\ YieldsInOrder
    /\ YieldsAll
    /\ \A i \in DOMAIN scanlog : i <= FirstEnd => ~scanlog[i].threw

\* what does hold of every scan: the Rids it yields are strictly ascending
\* (so none comes twice), none is on page 0 and each slot number is below
\* num_records_per_page
C22_AscendingDataRids ==
    \A i \in DOMAIN Yielded :
        ~scanlog[i].threw =>
            /\ Yielded[i].page_no \in DataPages
            /\ Yielded[i].slot_no \in 0 .. (file_hdr_.num_records_per_page - 1)
            /\ \A j \in DOMAIN Yielded :
                  (i < j /\ ~scanlog[j].threw) => RidLess(Yielded[i], Yielded[j])


\* C30: the end of a scan is absorbing: once is_end() is true every further
\* next() returns with is_end() still true and without fetching a page (the
\* pool and the file are as before the call), and rid() fails while is_end().
C30_EndAbsorbing ==
    /\ (Scanning /\ is_end(rid_)) =>
          /\ ~scan_rid(rid_).ok
          /\ is_end(next(HSt, rid_).rid)
          /\ ~next(HSt, rid_).threw
          /\ next(HSt, rid_).fetched = <<>>
          /\ next(HSt, rid_).h = HSt
    /\ \A i \in DOMAIN scanlog :
          i > FirstEnd =>
             /\ is_end(scanlog[i].rid)
             /\ ~scanlog[i].threw
             /\ scanlog[i].fetched = <<>>

\* what does hold at the end of a scan: is_end() stays true over every
\* further next() and rid() fails
C30_EndStaysEnd ==
    /\ (Scanning /\ is_end(rid_)) =>
          /\ ~scan_rid(rid_).ok
          /\ is_end(next(HSt, rid_).rid)
    /\ \A i \in DOMAIN scanlog : i > FirstEnd => is_end(scanlog[i].rid)

\* a finished scan of a file with a data page, advanced once more: next()
\* asked for page -1, took the last free frame of the pool for it and threw
C30_FrameLost ==
    /\ FirstEnd \in DOMAIN scanlog
    /\ Len(scanlog) = FirstEnd + 1
    /\ scanlog[Len(scanlog)].threw
    /\ scanlog[Len(scanlog)].fetched = <<-1>>
    /\ \E f \in DOMAIN pages_ :
          /\ pages_[f].id_ = [fd |-> fd_, page_no |-> -1]
          /\ pages_[f].id_ \notin DOMAIN page_table_
          /\ f \notin Range(free_list_) \cup Range(LRUlist_)


----------------------------------------------------------------------------
(***************************************************************************)
(* insert_record and delete_record from two threads.  RmFileHandle takes   *)
(* no lock: only the calls into the pool (fetch_page, new_page,            *)
(* unpin_page) are atomic, under the pool's latch.  Between them each      *)
(* thread reads and writes the bytes of its pinned frame and file_hdr_     *)
(* statement by statement.                                                 *)
(***************************************************************************)
\* the two threads start at most RaceOps calls between them
RaceOps == 6

\* the step leaves the pool, the disk and the header as in h
SetH(h) ==
    /\ pages_' = h.st.pgs
    /\ page_table_' = h.st.table
    /\ free_list_' = h.st.free
    /\ LRUlist_' = h.st.lru
    /\ disk' = h.st.dsk
    /\ fd2pageno_' = h.st.f2p
    /\ file_hdr_' = h.hdr
    /\ UNCHANGED <<dirtied, idle, holds, lastWrite, rdbuf, tables, scan>>

\* the page number of the page pinned in frame f
PageNoIn(f) == pages_[f].id_.page_no

\* a call starts: it overlaps when the other thread is inside a call
Begun(t, other, ph, rid, buf, pc) ==
    thr' = [thr EXCEPT ![t] = IF ph.ok
                              THEN [pc |-> pc, frame_id |-> ph.frame_id,
                                    rid |-> rid, buf |-> buf]
                              ELSE Idle,
                       !.raced = @ \/ (ph.ok /\ thr[other].pc # "idle")]

\* insert_record: RmPageHandle page_handle = create_page_handle();
InsBeginWith(ph, buf) ==
    /\ SetH(ph.h)
    /\ Begun("ins", "del", ph, Idle.rid, buf, "i_slot")
    /\ nops' = nops + 1
    /\ UNCHANGED live

InsBegin(buf) ==
    /\ thr.ins.pc = "idle"
    /\ nops < RaceOps
    /\ file_hdr_.first_free_page_no = RM_NO_FREE_PAGE => fd2pageno_[fd_] < MaxPageNo
    /\ InsBeginWith(create_page_handle(HSt), buf)

\* int slot_no = Bitmap::first_bit(0, ...); if none: unpin and throw
InsSlotIs(slot_no) ==
    /\ IF slot_no = INT_MAX
       THEN /\ SetH(Unpin(HSt, thr.ins.frame_id, FALSE))
            /\ thr' = [thr EXCEPT !.ins = Idle]
       ELSE /\ SetH(HSt)
            /\ thr' = [thr EXCEPT !.ins.pc = "i_set",
                                  !.ins.rid = [page_no |-> PageNoIn(thr.ins.frame_id),
                                               slot_no |-> slot_no]]
    /\ UNCHANGED <<live, nops>>

InsSlot ==
    /\ thr.ins.pc = "i_slot"
    /\ InsSlotIs(first_bit(FALSE, PageOf(HSt, thr.ins.frame_id).bitmap,
                           file_hdr_.num_records_per_page))

\* Bitmap::set(page_handle.bitmap, slot_no); memcpy(slot, buf, record_size);
InsSet ==
    /\ thr.ins.pc = "i_set"
    /\ SetH(SetPage(HSt, thr.ins.frame_id,
                    [PageOf(HSt, thr.ins.frame_id) EXCEPT
                        !.bitmap[thr.ins.rid.slot_no] = TRUE,
                        !.slots[thr.ins.rid.slot_no] = thr.ins.buf]))
    /\ thr' = [thr EXCEPT !.ins.pc = "i_count"]
    /\ UNCHANGED <<live, nops>>

\* page_handle.page_hdr->num_records++;
InsCount ==
    /\ thr.ins.pc = "i_count"
    /\ SetH(SetPage(HSt, thr.ins.frame_id,
                    [PageOf(HSt, thr.ins.frame_id) EXCEPT !.num_records = @ + 1]))
    /\ thr' = [thr EXCEPT !.ins.pc = "i_full"]
    /\ UNCHANGED <<live, nops>>

\* if (num_records == num_records_per_page)
\*     if (file_hdr_.first_free_page_no == page_no) ...
InsFull ==
    /\ thr.ins.pc = "i_full"
    /\ SetH(HSt)
    /\ thr' = [thr EXCEPT !.ins.pc =
                 IF /\ PageOf(HSt, thr.ins.frame_id).num_records
                         = file_hdr_.num_records_per_page
                    /\ file_hdr_.first_free_page_no = PageNoIn(thr.ins.frame_id)
                 THEN "i_head" ELSE "i_unpin"]
    /\ UNCHANGED <<live, nops>>

\* file_hdr_.first_free_page_no = page_handle.page_hdr->next_free_page_no;
InsHead ==
    /\ thr.ins.pc = "i_head"
    /\ SetH([HSt EXCEPT !.hdr.first_free_page_no =
                           PageOf(HSt, thr.ins.frame_id).next_free_page_no])
    /\ thr' = [thr EXCEPT !.ins.pc = "i_unpin"]
    /\ UNCHANGED <<live, nops>>

\* unpin_page(page_id, true); return new_rid;
InsUnpin ==
    /\ thr.ins.pc = "i_unpin"
    /\ SetH(Unpin(HSt, thr.ins.frame_id, TRUE))
    /\ live' = SetLive(thr.ins.rid, thr.ins.buf, "insert")
    /\ thr' = [thr EXCEPT !.ins = Idle]
    /\ UNCHANGED nops

\* delete_record(rid), on the Rid of a record some insert_record returned and
\* no delete_record removed: RmPageHandle page_handle = fetch_page_handle(...)
DelBeginWith(ph, rid) ==
    /\ SetH(ph.h)
    /\ Begun("del", "ins", ph, rid, ZeroPage, "d_test")
    /\ nops' = nops + 1
    /\ UNCHANGED live

DelBegin(rid) ==
    /\ thr.del.pc = "idle"
    /\ nops < RaceOps
    /\ rid \in DOMAIN live
    /\ DelBeginWith(fetch_page_handle(HSt, rid.page_no), rid)

\* if (!Bitmap::is_set(...)) unpin and throw
DelTest ==
    /\ thr.del.pc = "d_test"
    /\ IF is_set(PageOf(HSt, thr.del.frame_id).bitmap, thr.del.rid.slot_no)
       THEN /\ SetH(HSt)
            /\ thr' = [thr EXCEPT !.del.pc = "d_reset"]
       ELSE /\ SetH(Unpin(HSt, thr.del.frame_id, FALSE))
            /\ thr' = [thr EXCEPT !.del = Idle]
    /\ UNCHANGED <<live, nops>>

\* Bitmap::reset(page_handle.bitmap, rid.slot_no);
DelReset ==
    /\ thr.del.pc = "d_reset"
    /\ SetH(SetPage(HSt, thr.del.frame_id,
                    [PageOf(HSt, thr.del.frame_id) EXCEPT
                        !.bitmap[thr.del.rid.slot_no] = FALSE]))
    /\ thr' = [thr EXCEPT !.del.pc = "d_count"]
    /\ UNCHANGED <<live, nops>>

\* page_handle.page_hdr->num_records--;
DelCount ==
    /\ thr.del.pc = "d_count"
    /\ SetH(SetPage(HSt, thr.del.frame_id,
                    [PageOf(HSt, thr.del.frame_id) EXCEPT !.num_records = @ - 1]))
    /\ thr' = [thr EXCEPT !.del.pc = "d_full"]
    /\ UNCHANGED <<live, nops>>

\* bool was_full = (num_records + 1 == num_records_per_page); if (was_full) ...
DelFull ==
    /\ thr.del.pc = "d_full"
    /\ SetH(HSt)
    /\ thr' = [thr EXCEPT !.del.pc =
                 IF PageOf(HSt, thr.del.frame_id).num_records + 1
                       = file_hdr_.num_records_per_page
                 THEN "d_link" ELSE "d_unpin"]
    /\ UNCHANGED <<live, nops>>

\* release_page_handle: page_hdr->next_free_page_no = first_free_page_no;
DelLink ==
    /\ thr.del.pc = "d_link"
    /\ SetH(SetPage(HSt, thr.del.frame_id,
                    [PageOf(HSt, thr.del.frame_id) EXCEPT
                        !.next_free_page_no = file_hdr_.first_free_page_no]))
    /\ thr' = [thr EXCEPT !.del.pc = "d_head"]
    /\ UNCHANGED <<live, nops>>

\* release_page_handle: file_hdr_.first_free_page_no = page_no;
DelHead ==
    /\ thr.del.pc = "d_head"
    /\ SetH([HSt EXCEPT !.hdr.first_free_page_no = PageNoIn(thr.del.frame_id)])
    /\ thr' = [thr EXCEPT !.del.pc = "d_unpin"]
    /\ UNCHANGED <<live, nops>>

\* unpin_page(page_id, true), in release_page_handle or in delete_record
DelUnpin ==
    /\ thr.del.pc = "d_unpin"
    /\ SetH(Unpin(HSt, thr.del.frame_id, TRUE))
    /\ live' = [k \in (DOMAIN live) \ {thr.del.rid} |-> live[k]]
    /\ thr' = [thr EXCEPT !.del = Idle]
    /\ UNCHANGED nops

NextRace ==
    \/ \E buf \in Data : InsBegin(buf)
    \/ InsSlot
    \/ InsSet
    \/ InsCount
    \/ InsFull
    \/ InsHead
    \/ InsUnpin
    \/ \E rid \in Rids : DelBegin(rid)
    \/ DelTest
    \/ DelReset
    \/ DelCount
    \/ DelFull
    \/ DelLink
    \/ DelHead
    \/ DelUnpin

SpecRace == InitRm /\ [][NextRace]_vars

\* no call is in progress
Quiet == thr.ins.pc = "idle" /\ thr.del.pc = "idle"

\* the free-page list holds no page twice and no page linked to itself
NoDoubleInsertion ==
    /\ EndsAtSentinel(HSt, file_hdr_.first_free_page_no, {}, MaxPageNo + 1)
    /\ \A page_no \in FreePages : PageView(HSt, page_no).next_free_page_no # page_no

\* C28: with insert_record and delete_record running from two threads, their
\* steps interleaving freely, the free-page list never holds a page more than
\* once and never a page whose next-free link points to itself, whenever both
\* calls have returned.
C28_NoDoubleInsertion == Quiet => NoDoubleInsertion

\* as long as no two calls have overlapped the list is sound
C28_SoundWithoutOverlap == (Quiet /\ ~thr.raced) => NoDoubleInsertion

====
